---- MODULE Spec2Model ----
(***************************************************************************)
(* Model of the reconciliation core of symlink-manager: the entity store   *)
(* (symlink_manager/database/repository.py) with its fill-only update and  *)
(* the Media-reference propagation between Torrent and MediaFile records.  *)
(*                                                                         *)
(* The store is the committed content of the three tables.  Every store    *)
(* action is one call made inside its own Repository scope: a call that    *)
(* raises is rolled back and leaves the tables as they were.               *)
(* A relationship attribute (MediaFile.torrent, MediaFile.media,           *)
(* Torrent.files) is read as the ORM loads it after a flush: the row the   *)
(* foreign key column names, or nothing when no such row exists.           *)
(***************************************************************************)
EXTENDS Integers, Sequences, FiniteSets, TLC

VARIABLES media, torrents, files, lastOp, pre, scope, fs, imdb, disk, session

vars == <<media, torrents, files, lastOp, pre, scope, fs, imdb, disk, session>>

(***************************************************************************)
(* Bounds of the model.  An update call names at most MaxKwargs            *)
(* attributes.  The tables are bounded by the path sets: an upsert whose   *)
(* lookup path is stored inserts nothing.                                  *)
(***************************************************************************)
MaxKwargs == 1
\* The symlinker is run while the disk holds fewer links than this.
MaxLinks == 4
MaxList == 2
\* The search of the service returns at most this many results.
MaxResults == 3

(***************************************************************************)
(* Values.  None of a string column is NULL, None of an integer column is  *)
(* NoneInt (autoincrement keys start at 1, sizes are >= 0).                *)
(***************************************************************************)
NULL == "NULL"
NoneInt == -1

MediaIdSet == {"101", "202"}
KindSet == {"movie", "show"}
TitleSet == {"A", "B"}
PathSet == {"p1", "p2"}
TorrentPathSet == {"t1"}
SeasonSet == {"01", "02"}
EpisodeSet == {"01"}
SizeSet == {100}
Year == 1999

IntColumns == {"torrent_id", "file_size", "torrent_year", "year"}

None(a) == IF a \in IntColumns THEN NoneInt ELSE NULL

\* Python truthiness of a column value: None, "" and 0 are false.
Truthy(a, v) == IF a \in IntColumns THEN v # NoneInt /\ v # 0
                ELSE v # NULL /\ v # ""


(***************************************************************************)
(* Rows.  A Torrent's and a MediaFile's primary key is its index in the    *)
(* table (autoincrement, nothing is deleted); a Media's is its id.         *)
(***************************************************************************)
\* Media.create: kind is the class, Movie or Show.
Media_create(kind, imdb_id, title, year, anime) ==
    [id |-> imdb_id, kind |-> kind, title |-> title, year |-> year,
     anime |-> anime]

\* Torrent.create
Torrent_create(path, title, year) ==
    [path |-> path, torrent_title |-> title, torrent_year |-> year,
     media_id |-> NULL]

\* MediaFile.create
MediaFile_create(media_id, torrent_id, symlink_path, target_path, file_size, season, episode) ==
    [media_id |-> media_id, torrent_id |-> torrent_id,
     symlink_path |-> symlink_path, target_path |-> target_path,
     file_size |-> file_size, season |-> season, episode |-> episode]

\* The store as one value: what a Repository scope reads and writes.
Store == [media |-> media, torrents |-> torrents, files |-> files]

EmptyStore == [media |-> {}, torrents |-> <<>>, files |-> <<>>]

(***************************************************************************)
(* ORM reads.                                                              *)
(***************************************************************************)
\* Movie and Show are subclasses of Media; session.get(cls, id) answers
\* only a row whose class is cls or a subclass of it.
IsSubclass(kind, cls) == cls = "media" \/ kind = cls

\* session.get(model_class, id): the rows (none or one) with that key.
get_by_id(db, cls, id) ==
    {r \in db.media : r.id = id /\ IsSubclass(r.kind, cls)}

\* MediaFile.torrent: the parent Torrent's key, 0 when there is none.
FileTorrent(db, e) ==
    IF e.torrent_id \in DOMAIN db.torrents THEN e.torrent_id ELSE 0

\* MediaFile.media: whether the relationship loads a Media.
FileHasMedia(db, e) ==
    e.media_id # NULL /\ \E r \in db.media : r.id = e.media_id

\* Torrent.files: the keys of the Torrent's child MediaFiles.
TorrentFiles(db, t) == {i \in DOMAIN db.files : db.files[i].torrent_id = t}

Min(S) == CHOOSE x \in S : \A y \in S : x <= y

(***************************************************************************)
(* EntityHandler                                                           *)
(***************************************************************************)
\* EntityHandler.update: fill-only.  kwargs is a function from the named
\* attributes to the supplied values.
EntityHandler_update_overwrite(entity, kwargs) ==
    [a \in DOMAIN entity |->
        IF a \in DOMAIN kwargs THEN kwargs[a] ELSE entity[a]]

EntityHandler_update(entity, kwargs) ==
    [a \in DOMAIN entity |->
        IF a \in DOMAIN kwargs /\ entity[a] = None(a)
        THEN kwargs[a] ELSE entity[a]]

\* EntityHandler._extract_attributes: the attributes that are not None.
extract_attributes(entity) ==
    [a \in {b \in DOMAIN entity : entity[b] # None(b)} |-> entity[a]]

(***************************************************************************)
(* MediaHandler                                                            *)
(***************************************************************************)
\* EntityHandler.add of a Media: INSERT; the primary key media.id is unique
\* and media.year is NOT NULL: a second row with the key, or a row without
\* a year, makes the flush raise.
MediaInsert(db, entity) ==
    IF (\E r \in db.media : r.id = entity.id) \/ entity.year = NoneInt
    THEN [db |-> db, result |-> NULL, error |-> TRUE]
    ELSE [db |-> [db EXCEPT !.media = @ \cup {entity}],
          result |-> entity, error |-> FALSE]

\* MediaHandler.add, as Repository.add reaches it: the handler is the one
\* registered for type(entity), so the lookup is by the entity's own class.
MediaHandler_add(db, entity) ==
    LET existing == get_by_id(db, entity.kind, entity.id)
    IN  IF existing # {}
        THEN [db |-> db, result |-> CHOOSE r \in existing : TRUE,
              error |-> FALSE]
        ELSE MediaInsert(db, entity)

(***************************************************************************)
(* TorrentHandler                                                          *)
(***************************************************************************)
\* A lookup by path that finds no row.
Torrent_get_by_path_none(db, path) == 0

\* TorrentHandler.get_by_path: first row with the path, 0 when none.
Torrent_get_by_path(db, path) ==
    LET hits == {i \in DOMAIN db.torrents : db.torrents[i].path = path}
    IN  IF hits = {} THEN 0 ELSE Min(hits)

TorrentHandler_add_insert_always(db, entity) ==
    [db |-> [db EXCEPT !.torrents = Append(@, entity)],
     result |-> Len(db.torrents) + 1]

TorrentHandler_add(db, entity) ==
    LET existing == Torrent_get_by_path(db, entity.path)
    IN  IF existing # 0
        THEN [db |-> db, result |-> existing]
        ELSE [db |-> [db EXCEPT !.torrents = Append(@, entity)],
              result |-> Len(db.torrents) + 1]

\* TorrentHandler._propagate_media_id_to_files
propagate_media_id_to_files_none(db, t) == db

propagate_media_id_to_files(db, t) ==
    IF ~Truthy("media_id", db.torrents[t].media_id)
    THEN db
    ELSE [db EXCEPT !.files =
            [i \in DOMAIN db.files |->
                IF i \in TorrentFiles(db, t)
                THEN [db.files[i] EXCEPT !.media_id = db.torrents[t].media_id]
                ELSE db.files[i]]]

\* TorrentHandler.update
TorrentHandler_update(db, t, kwargs) ==
    LET old_media_id == db.torrents[t].media_id
        d1 == [db EXCEPT !.torrents[t] = EntityHandler_update(@, kwargs)]
    IN  IF old_media_id = NULL /\ d1.torrents[t].media_id # NULL
        THEN propagate_media_id_to_files(d1, t)
        ELSE d1

(***************************************************************************)
(* MediaFileHandler                                                        *)
(***************************************************************************)
\* MediaFileHandler.get_by_path: first row whose target_path or
\* symlink_path is the path (rows come in key order), 0 when none.
MediaFile_get_by_path(db, path) ==
    LET hits == {i \in DOMAIN db.files :
                    \/ db.files[i].target_path = path
                    \/ db.files[i].symlink_path = path}
    IN  IF hits = {} THEN 0 ELSE Min(hits)

\* MediaFileHandler.update
MediaFileHandler_update_no_backfill(db, f, kwargs) ==
    [db EXCEPT !.files[f] = EntityHandler_update(@, kwargs)]

MediaFileHandler_update(db, f, kwargs) ==
    LET d1 == [db EXCEPT !.files[f] = EntityHandler_update(@, kwargs)]
        entity == d1.files[f]
        t == FileTorrent(d1, entity)
    IN  IF t # 0 /\ FileHasMedia(d1, entity)
        THEN [d1 EXCEPT !.torrents[t].media_id = entity.media_id]
        ELSE d1

\* MediaFileHandler.add
MediaFileHandler_add_insert_always(db, entity) ==
    [db |-> [db EXCEPT !.files = Append(@, entity)],
     result |-> Len(db.files) + 1, merged |-> FALSE]

MediaFileHandler_add(db, entity) ==
    LET path == IF Truthy("symlink_path", entity.symlink_path)
                THEN entity.symlink_path ELSE entity.target_path
        existing == MediaFile_get_by_path(db, path)
    IN  IF existing # 0
        THEN [db |-> MediaFileHandler_update(db, existing,
                                             extract_attributes(entity)),
              result |-> existing, merged |-> TRUE]
        ELSE [db |-> [db EXCEPT !.files = Append(@, entity)],
              result |-> Len(db.files) + 1, merged |-> FALSE]

(***************************************************************************)
(* Inputs of the store calls.  A reference handed to the store names a row *)
(* that exists (the columns are declared ForeignKey and every caller reads *)
(* the key off a stored row).                                              *)
(*                                                                         *)
(* EntityHandler.update treats every attribute on its own, so the inputs   *)
(* are explored in families; scope names the family a behaviour draws      *)
(* from:                                                                   *)
(*   "links"  the calls set the Media and Torrent references,              *)
(*   "paths"  the calls set the symlink and target paths,                  *)
(*   "data"   the calls set season and episode,                            *)
(*   "media"  the calls add Media of both kinds and several titles,        *)
(*   "torrents" the calls add Torrents of several paths and titles.        *)
(***************************************************************************)
Scopes == {"links", "paths", "data", "media", "torrents"}

ABSENT == "ABSENT"
AbsentInt == -2

Absent(a) == IF a \in IntColumns THEN AbsentInt ELSE ABSENT

MediaIds(db) == {r.id : r \in db.media}

Opt(cond, S, none) == IF cond THEN {none} \cup S ELSE {none}

\* kwargs of an update call: the attributes that are named, with their values.
Named(full) ==
    [a \in {b \in DOMAIN full : full[b] # Absent(b)} |-> full[a]]

NamedCount(full) == Cardinality({b \in DOMAIN full : full[b] # Absent(b)})

MediaFileKwargs(db) ==
    {Named(full) : full \in
        {g \in [media_id : Opt(scope = "links", MediaIds(db), ABSENT),
                torrent_id : Opt(scope = "links", DOMAIN db.torrents, AbsentInt),
                symlink_path : Opt(scope = "paths", PathSet, ABSENT),
                target_path : Opt(scope = "paths", PathSet, ABSENT),
                file_size : {AbsentInt} \cup SizeSet,
                season : Opt(scope = "data", SeasonSet, ABSENT),
                episode : Opt(scope = "data", EpisodeSet, ABSENT)] :
            NamedCount(g) \in 1..MaxKwargs}}

TorrentKwargs(db) ==
    {Named(full) : full \in
        {g \in [media_id : Opt(scope = "links", MediaIds(db), ABSENT),
                torrent_title : {ABSENT, "B"}] :
            NamedCount(g) \in 1..MaxKwargs}}

MediaKwargs == {Named(full) : full \in [title : TitleSet]}

\* The entities MediaFile.create can hand to the store.
MediaFileEntities(db) ==
    [media_id : Opt(scope = "links", MediaIds(db), NULL),
     torrent_id : Opt(scope = "links", DOMAIN db.torrents, NoneInt),
     symlink_path : Opt(scope = "paths", PathSet, NULL),
     target_path : IF scope = "media" THEN {"p1"} ELSE PathSet,
     file_size : SizeSet,
     season : Opt(scope = "data", SeasonSet, NULL),
     episode : Opt(scope = "data", EpisodeSet, NULL)]

\* The entities Media.create can hand to the store.
MediaEntities ==
    CASE scope = "media" ->
            {Media_create(k, i, t, Year, FALSE) : k \in KindSet, i \in MediaIdSet, t \in TitleSet}
      [] scope = "links" -> {Media_create("movie", i, "A", Year, FALSE) : i \in MediaIdSet}
      [] OTHER -> {}

TorrentPaths ==
    CASE scope = "torrents" -> TorrentPathSet \cup {"t2"}
      [] scope \in {"links", "media"} -> TorrentPathSet
      [] OTHER -> {}

TorrentTitles == IF scope = "torrents" THEN TitleSet ELSE {"A"}

\* The entities Torrent.create can hand to the store.
TorrentEntities ==
    {Torrent_create(path, title, Year) : path \in TorrentPaths, title \in TorrentTitles}

(***************************************************************************)
(* The scanners.  fs is the directory tree as the listing calls return it: *)
(* the library's media directories and the torrent directories, each with  *)
(* its video files in listing order.  imdb is the metadata service: what   *)
(* the search answers for a torrent's parsed name and what the fetch       *)
(* answers for an id.                                                      *)
(***************************************************************************)
\* Parser.parse_torrent_episode on the external parser's lists for the file:
\* lists of integers; NoneInt where the code returns None.
parse_torrent_episode(file) ==
    IF file.seasons # <<>> /\ file.episodes # <<>>
    THEN <<file.seasons[1], file.episodes[1]>>
    ELSE IF file.episodes # <<>> THEN <<NoneInt, file.episodes[1]>>
    ELSE <<NoneInt, NoneInt>>

\* get_imdb_id raises (the search of the service failed).
SearchError == "RuntimeError"

\* Truth value of an integer or None in a condition.
TruthyInt(v) == v # NoneInt /\ v # 0

\* The text a String column holds for an integer.
IntToStr(n) ==
    CASE n = 0 -> "0" [] n = 1 -> "1" [] n = 2 -> "2" [] n = 3 -> "3"
      [] n = 4 -> "4" [] n = 5 -> "5" [] n = 6 -> "6" [] n = 7 -> "7"
      [] n = 8 -> "8" [] n = 9 -> "9" [] n = 1999 -> "1999"

\* The test index_torrent puts on the extracted pair.
HasSeasonAndEpisode(se) == TruthyInt(se[1]) /\ TruthyInt(se[2])

\* The first file, whatever its size.
MaxBySize_first(fileseq) == fileseq[1]

\* max(files, key=size): the first file of the greatest size.
MaxBySize(fileseq) ==
    LET big == {i \in DOMAIN fileseq :
                    \A j \in DOMAIN fileseq : fileseq[j].size <= fileseq[i].size}
    IN  fileseq[Min(big)]

\* Path.stat() raises for the path (the file is gone or cannot be read).
StatFails(path) == path \in fs.broken

\* What the body of a scope hands back: the session's store and the
\* exception that ended the body ("" when none).
Work(db, error) == [db |-> db, error |-> error]

RECURSIVE IndexShowFiles(_, _, _)
\* TorrentScanner.index_torrent, the loop over the files of a show.
IndexShowFiles(db, t, fileseq) ==
    IF fileseq = <<>> THEN Work(db, "")
    ELSE LET file == Head(fileseq)
             se == parse_torrent_episode(file)
             d1 == IF HasSeasonAndEpisode(se)
                   THEN MediaFileHandler_add(db,
                            MediaFile_create(NULL, t, NULL, file.path,
                                             file.size, IntToStr(se[1]),
                                             IntToStr(se[2]))).db
                   ELSE db
         IN  IF HasSeasonAndEpisode(se) /\ StatFails(file.path)
             THEN Work(db, "OSError")
             ELSE IndexShowFiles(d1, t, Tail(fileseq))

\* TorrentScanner.index_torrent, the body of its Repository scope.
index_torrent_body(db, dir) ==
    LET r == TorrentHandler_add(db, Torrent_create(dir.path, dir.title, dir.year))
        t == r.result
    IN  IF dir.kind = "movie"
        THEN LET target == MaxBySize(dir.files)
             IN  IF \E i \in DOMAIN dir.files : StatFails(dir.files[i].path)
                 THEN Work(r.db, "OSError")
                 ELSE Work(MediaFileHandler_add(r.db,
                               MediaFile_create(NULL, t, NULL, target.path,
                                                target.size, NULL, NULL)).db,
                           "")
        ELSE IndexShowFiles(r.db, t, dir.files)

\* index_torrent committing what its body did when the body raises.
index_torrent_commit_partial(db, dir) == index_torrent_body(db, dir).db

\* TorrentScanner.index_torrent: one Repository scope, rolled back when
\* the body raises.
index_torrent(db, dir) ==
    IF index_torrent_body(db, dir).error # "" THEN db
    ELSE index_torrent_body(db, dir).db

RECURSIVE torrent_full_scan_stop(_, _)
\* full_scan ending at the first directory whose indexing raises.
torrent_full_scan_stop(db, dirs) ==
    IF dirs = <<>> THEN db
    ELSE LET dir == Head(dirs)
         IN  IF \/ Torrent_get_by_path(db, dir.path) # 0
                \/ dir.title = NULL
                \/ dir.files = <<>>
             THEN torrent_full_scan_stop(db, Tail(dirs))
             ELSE IF index_torrent_body(db, dir).error # "" THEN db
             ELSE torrent_full_scan_stop(index_torrent(db, dir), Tail(dirs))

RECURSIVE torrent_full_scan(_, _)
\* TorrentScanner.full_scan over the listed torrent directories: a stored
\* path is skipped, so is a name without a title and a directory without
\* video files.
torrent_full_scan(db, dirs) ==
    IF dirs = <<>> THEN db
    ELSE LET dir == Head(dirs)
             d1 == IF \/ Torrent_get_by_path(db, dir.path) # 0
                      \/ dir.title = NULL
                      \/ dir.files = <<>>
                   THEN db
                   ELSE index_torrent(db, dir)
         IN  torrent_full_scan(d1, Tail(dirs))

\* "movie" in category_name.lower() and "anime" in category_name.lower(),
\* for the category names of the model.
ContainsMovie(name) ==
    name \in {"movies", "anime_movies", "custom_movies", "custom_anime_movies"}

ContainsAnime(name) ==
    name \in {"anime_movies", "anime_shows", "custom_anime_movies"}

\* LibraryScanner.get_media_info: kind and anime flag from the category name.
CategoryKind(category) == IF ContainsMovie(category) THEN "movie" ELSE "show"

CategoryAnime(category) == ContainsAnime(category)

\* str(None): the target path index_media writes for a file that is no link.
NoneStr == "None"

RECURSIVE IndexMediaFiles(_, _, _)
\* LibraryScanner.index_media, the loop over the files.
IndexMediaFiles(db, imdb_id, fileseq) ==
    IF fileseq = <<>> THEN Work(db, "")
    ELSE LET file == Head(fileseq)
             target_path == IF file.link # NULL THEN file.link ELSE NoneStr
             d1 == MediaFileHandler_add(db,
                       MediaFile_create(imdb_id, NoneInt, file.path,
                                        target_path, file.size,
                                        file.season, file.episode)).db
         IN  IF StatFails(file.path) \/ StatFails(file.link)
             THEN Work(db, "OSError")
             ELSE IndexMediaFiles(d1, imdb_id, Tail(fileseq))

\* index_media without the test for a stored Media and without the lookup
\* by path.
index_media_no_skip(db, dir) ==
    [db EXCEPT
        !.media = @ \cup {Media_create(CategoryKind(dir.category), dir.imdb_id,
                                       dir.title, dir.year,
                                       CategoryAnime(dir.category))},
        !.files = @ \o [i \in DOMAIN dir.files |->
                          MediaFile_create(dir.imdb_id, NoneInt,
                              dir.files[i].path,
                              IF dir.files[i].link # NULL
                              THEN dir.files[i].link ELSE NoneStr,
                              dir.files[i].size, dir.files[i].season,
                              dir.files[i].episode)]]

\* LibraryScanner.index_media, the body of its Repository scope.
index_media_body(db, dir) ==
    IF get_by_id(db, "media", dir.imdb_id) # {} THEN Work(db, "")
    ELSE LET m == Media_create(CategoryKind(dir.category), dir.imdb_id,
                               dir.title, dir.year,
                               CategoryAnime(dir.category))
         IN  IndexMediaFiles(MediaHandler_add(db, m).db, dir.imdb_id,
                             dir.files)

\* LibraryScanner.index_media: one Repository scope, rolled back when the
\* body raises.
index_media(db, dir) ==
    IF index_media_body(db, dir).error # "" THEN db
    ELSE index_media_body(db, dir).db

RECURSIVE library_full_scan(_, _)
\* LibraryScanner.full_scan over the listed media directories: a name that
\* does not parse is skipped.
library_full_scan(db, dirs) ==
    IF dirs = <<>> THEN db
    ELSE LET dir == Head(dirs)
             d1 == IF dir.imdb_id = NULL THEN db ELSE index_media(db, dir)
         IN  library_full_scan(d1, Tail(dirs))

\* The loop body linking the Torrent although the Media could not be
\* fetched.
resolve_torrent_no_continue(db, t) ==
    LET torrent == db.torrents[t]
        imdb_id == imdb.search[torrent.path]
    IN  IF Truthy("media_id", torrent.media_id) \/ imdb_id = SearchError
             \/ ~Truthy("media_id", imdb_id)
        THEN [db |-> db, flushfailed |-> FALSE]
        ELSE [db |-> TorrentHandler_update(db, t, [media_id |-> imdb_id]),
              flushfailed |-> FALSE]

\* TorrentScanner.add_missing_media_to_torrents, the body of the loop for
\* one Torrent.
\* What is caught and logged leaves the store as it is; flushfailed tells
\* that the flush of repo.add raised, which is caught and logged as well.
resolve_torrent(db, t) ==
    LET torrent == db.torrents[t]
        imdb_id == imdb.search[torrent.path]
        fetched == imdb.fetch[imdb_id]
        added == MediaHandler_add(db, Media_create(fetched.kind, imdb_id,
                                      fetched.title, fetched.year,
                                      fetched.anime))
    IN  IF Truthy("media_id", torrent.media_id) \/ imdb_id = SearchError
             \/ ~Truthy("media_id", imdb_id)
        THEN [db |-> db, flushfailed |-> FALSE]
        ELSE IF get_by_id(db, "media", imdb_id) # {}
        THEN [db |-> TorrentHandler_update(db, t, [media_id |-> imdb_id]),
              flushfailed |-> FALSE]
        ELSE IF ~fetched.ok THEN [db |-> db, flushfailed |-> FALSE]
        ELSE IF added.error THEN [db |-> db, flushfailed |-> TRUE]
        ELSE [db |-> TorrentHandler_update(added.db, t, [media_id |-> imdb_id]),
              flushfailed |-> FALSE]

RECURSIVE ResolveFrom(_, _, _)
\* The loop from Torrent t on, db0 being the store the scope started with.
\* A flush that raised has rolled the session's transaction back and left
\* the session unusable until rollback(): whatever touches it next (the
\* next torrent.media_id, or the commit of __exit__) raises
\* PendingRollbackError, and nothing of the pass is committed.
ResolveFrom(db0, db, t) ==
    IF t > Len(db.torrents) THEN [db |-> db, error |-> ""]
    ELSE IF resolve_torrent(db, t).flushfailed
    THEN [db |-> db0, error |-> "PendingRollbackError"]
    ELSE ResolveFrom(db0, resolve_torrent(db, t).db, t + 1)

\* TorrentScanner.add_missing_media_to_torrents: one Repository scope.
add_missing_media_to_torrents(db) == ResolveFrom(db, db, 1)

(***************************************************************************)
(* The directory trees and service answers the scans are run on.           *)
(***************************************************************************)
TorrentFile(path, size, seasons, episodes) ==
    [path |-> path, size |-> size, seasons |-> seasons, episodes |-> episodes]

Episode1 == TorrentFile("t1/e1", 100, <<1>>, <<1>>)
Episode2 == TorrentFile("t1/e2", 200, <<1>>, <<2>>)
\* A special: season 0.
Special == TorrentFile("t1/s00e01", 100, <<0>>, <<1>>)
\* An episode marker without a season.
EpisodeOnly == TorrentFile("t1/e3", 100, <<>>, <<3>>)
Sample == TorrentFile("t1/sample", 50, <<>>, <<>>)
MovieSmall == TorrentFile("t2/a", 100, <<>>, <<>>)
MovieBig == TorrentFile("t2/b", 200, <<>>, <<>>)
MovieTiny == TorrentFile("t2/c", 50, <<>>, <<>>)
MovieTie == TorrentFile("t2/d", 200, <<>>, <<>>)

ShowDir(fileseq) ==
    [path |-> "t1", title |-> "A", year |-> Year, kind |-> "show",
     files |-> fileseq]

MovieDirOf(fileseq) ==
    [path |-> "t2", title |-> "B", year |-> Year, kind |-> "movie",
     files |-> fileseq]

\* Sizes 100, 200, 50.
MovieDir == MovieDirOf(<<MovieSmall, MovieBig, MovieTiny>>)

\* Two files of the greatest size.
MovieDirTie == MovieDirOf(<<MovieTiny, MovieBig, MovieTie>>)

MovieDirs == {MovieDir, MovieDirTie}

ShowFileOrders ==
    {<<Episode1, Episode2>>, <<Episode2, Episode1>>, <<Sample, Episode1>>,
     <<Special, Episode1>>, <<EpisodeOnly, Episode2>>}

\* A directory whose name gives no title.
NoTitleDir ==
    [path |-> "t0", title |-> NULL, year |-> Year, kind |-> "movie",
     files |-> <<MovieSmall>>]

TorrentTrees ==
    {<<>>, <<NoTitleDir, ShowDir(<<Episode1, Episode2>>), MovieDir>>}
    \cup {<<m>> : m \in MovieDirs}
    \cup {<<ShowDir(o)>> : o \in ShowFileOrders}
    \cup {<<ShowDir(o), m>> : o \in ShowFileOrders, m \in MovieDirs}
    \cup {<<MovieDir, ShowDir(o)>> : o \in ShowFileOrders}

\* size is what stat() answers: the size of the link's target for a link.
LibraryFile(path, link, season, episode) ==
    [path |-> path, link |-> link,
     size |-> IF link \in {"t2/b", "t1/e2"} THEN 200 ELSE 100,
     season |-> season, episode |-> episode]

\* The show 101 with one episode file, a link into torrent t1 or a plain file.
ShowLibDir(link) ==
    [category |-> "shows", imdb_id |-> "101", title |-> "A", year |-> Year,
     files |-> <<LibraryFile("lib/101/s01e01", link, "01", "01")>>]

\* The movie 202 with one file, a link into a torrent or a plain file.
MovieLibDir(link) ==
    [category |-> "movies", imdb_id |-> "202", title |-> "B", year |-> Year,
     files |-> <<LibraryFile("lib/202/b", link, NULL, NULL)>>]

\* A directory whose name does not match the media pattern.
NoIdLibDir ==
    [category |-> "shows", imdb_id |-> NULL, title |-> NULL, year |-> NoneInt,
     files |-> <<LibraryFile("lib/x/s01e01", NULL, "01", "01")>>]

LibraryTrees ==
    {<<>>, <<NoIdLibDir, ShowLibDir("t1/e1"), MovieLibDir("t2/b")>>}
    \cup {<<ShowLibDir(l)>> : l \in {NULL, "t1/e1"}}
    \cup {<<ShowLibDir(l), MovieLibDir(k)>> :
            l \in {NULL, "t1/e1"}, k \in {NULL, "t2/b", "t1/e2"}}

\* The paths whose stat() raises: none, a file of the show torrent, or the
\* library's file of the show.
BrokenSets == {{}, {"t1/e2"}, {"lib/101/s01e01"}}

EmptyFs == [library |-> <<>>, torrents |-> <<>>, broken |-> {}]

Fetched(ok, kind, title, year) ==
    [ok |-> ok, kind |-> kind, title |-> title, year |-> year, anime |-> FALSE]

\* What the fetch of 303 does: it answers the title, it raises, or it
\* answers a title that has no year.
FetchModes == {"ok", "raises", "no_year"}

\* The search answers an id or nothing for a torrent, or raises; c is the
\* answer for t1, the answer for t2, and what the fetch of 303 does, which
\* is told apart only when 303 is searched.
ImdbAnswers ==
    {[search |-> [p \in {"t1", "t2"} |-> IF p = "t1" THEN c[1] ELSE c[2]],
      fetch |-> [i \in {NULL, SearchError, "101", "202", "303"} |->
                    Fetched(i \notin {NULL, SearchError}
                                /\ (i = "303" => c[3] # "raises"),
                            IF i = "202" THEN "movie" ELSE "show",
                            IF i = "202" THEN "B" ELSE "A",
                            IF i = "303" /\ c[3] = "no_year" THEN NoneInt
                            ELSE Year)]] :
        c \in {x \in {NULL, SearchError, "101", "303"} \X {NULL, "202"}
                        \X FetchModes : x[1] = "303" \/ x[3] = "ok"}}

NoImdb == [search |-> <<>>, fetch |-> <<>>]

(***************************************************************************)
(* The symlinker.  disk is the part of the filesystem it reads and writes: *)
(* the regular files, the directories, and the links with their targets.   *)
(***************************************************************************)
EmptyDisk == [files |-> {}, dirs |-> {}, links |-> {}]

\* Path.exists(): a file, a directory, or a link whose target exists.
Exists(d, p) ==
    \/ p \in d.files
    \/ p \in d.dirs
    \/ \E l \in d.links : l.path = p /\ l.target \in d.files \cup d.dirs

\* Something is at the path, a link with a missing target included.
Occupied(d, p) == Exists(d, p) \/ \E l \in d.links : l.path = p

\* Symlinker.__init__: library_base, and separate_anime at its default.
library_base == "lib"
separate_anime == TRUE

\* Media.get_path: the category directory and the Media's directory name.
Media_category(m) ==
    IF m.kind = "movie"
    THEN (IF m.anime /\ separate_anime THEN "anime_movies" ELSE "movies")
    ELSE (IF m.anime /\ separate_anime THEN "anime_shows" ELSE "shows")

Media_get_path(m) ==
    [parent |-> library_base \o "/" \o Media_category(m),
     name |-> m.title \o " (" \o IntToStr(m.year) \o ") {imdb-tt" \o m.id \o "}"]

\* Path(target_path).suffix for the target paths of the model.
PathSuffix(p) == IF p \in {"None", "t9/noext"} THEN "" ELSE ".mkv"

\* MediaFile.get_path: the file name, as stem and extension.  No stem of
\* the model holds a dot, so Path.stem and Path.suffix split the name here.
MediaFile_get_path(mf, m) ==
    [stem |-> IF Truthy("episode", mf.episode)
              THEN m.title \o " (" \o IntToStr(m.year) \o ") - s"
                       \o (IF mf.season = NULL THEN "None" ELSE mf.season)
                       \o "e" \o mf.episode
              ELSE m.title \o " (" \o IntToStr(m.year) \o ") {imdb-tt"
                       \o m.id \o "}",
     ext |-> PathSuffix(mf.target_path)]

\* f"{base_name} - v{version}{extension}" in the directory.
VersionedPath(dir, stem, ext, version) ==
    dir \o "/" \o stem \o " - v" \o IntToStr(version) \o ext

RECURSIVE FirstFree(_, _, _, _, _)
\* get_unique_filename, the loop from the given version.
FirstFree(d, dir, stem, ext, version) ==
    IF ~Exists(d, VersionedPath(dir, stem, ext, version))
    THEN VersionedPath(dir, stem, ext, version)
    ELSE FirstFree(d, dir, stem, ext, version + 1)

\* get_unique_filename counting from 3.
get_unique_filename_from3(d, dir, stem, ext) ==
    IF ~Exists(d, dir \o "/" \o stem \o ext)
    THEN dir \o "/" \o stem \o ext
    ELSE FirstFree(d, dir, stem, ext, 3)

\* get_unique_filename(base_path, return_full_path=True), base_path given
\* by its parent, stem and suffix.
get_unique_filename(d, dir, stem, ext) ==
    IF ~Exists(d, dir \o "/" \o stem \o ext)
    THEN dir \o "/" \o stem \o ext
    ELSE FirstFree(d, dir, stem, ext, 2)

\* What create_symlink hands back: the store, the disk, the returned path
\* (NULL for None or when it raises), the exception raised ("" when none)
\* and the path format_symlink_path derived (NULL when it was not reached).
Outcome(db, d, result, error, unique) ==
    [db |-> db, disk |-> d, result |-> result, error |-> error,
     unique |-> unique]

\* What format_symlink_path hands back: the exception raised ("" when
\* none), the disk, and the derived path (NULL when it raises).
Derived(error, d, unique) == [error |-> error, disk |-> d, unique |-> unique]

\* format_symlink_path that places a file without Media in a directory of
\* its own.
format_symlink_path_no_check(db, d, f) ==
    LET dir == library_base \o "/unknown"
    IN  Derived("", [d EXCEPT !.dirs = @ \cup {dir}],
                get_unique_filename(d, dir, "unknown", ""))

\* Symlinker.format_symlink_path, with create_media_directory: the Media's
\* directory is made (mkdir without parents: the category directory must
\* exist) and the free name in it is taken.
format_symlink_path(db, d, f) ==
    LET mf == db.files[f]
        m == CHOOSE r \in db.media : r.id = mf.media_id
        media_path == Media_get_path(m)
        dir == media_path.parent \o "/" \o media_path.name
        name == MediaFile_get_path(mf, m)
        d1 == [d EXCEPT !.dirs = @ \cup {dir}]
    IN  IF ~FileHasMedia(db, mf) THEN Derived("ValueError", d, NULL)
        ELSE IF ~Exists(d, media_path.parent)
        THEN Derived("FileNotFoundError", d, NULL)
        ELSE Derived("", d1, get_unique_filename(d1, dir, name.stem, name.ext))

\* create_symlink without the test for a recorded link.
create_symlink_no_recorded(db, d, f) ==
    LET mf == db.files[f]
        p == format_symlink_path(db, d, f)
    IN  Outcome(MediaFileHandler_update(db, f, [symlink_path |-> p.unique]),
                [p.disk EXCEPT !.links = @ \cup {[path |-> p.unique,
                                                 target |-> mf.target_path]}],
                p.unique, "", p.unique)

\* create_symlink without the test for the target.
create_symlink_no_target(db, d, f) ==
    LET mf == db.files[f]
    IN  Outcome(db, [d EXCEPT !.links = @ \cup {[path |-> mf.target_path \o ".lnk",
                                                 target |-> mf.target_path]}],
                mf.target_path \o ".lnk", "", NULL)

\* create_symlink that lets the OSError of the link's creation through.
create_symlink_os_error_raised(db, d, f) ==
    LET mf == db.files[f]
        p == format_symlink_path(db, d, f)
    IN  IF Truthy("symlink_path", mf.symlink_path) /\ Exists(d, mf.symlink_path)
        THEN Outcome(db, d, mf.symlink_path, "", NULL)
        ELSE IF ~Exists(d, mf.target_path)
        THEN Outcome(db, d, NULL, "FileNotFoundError", NULL)
        ELSE IF p.error # ""
        THEN Outcome(db, p.disk, NULL, p.error, NULL)
        ELSE IF Occupied(p.disk, p.unique)
        THEN Outcome(db, p.disk, NULL, "FileExistsError", p.unique)
        ELSE Outcome(MediaFileHandler_update(db, f, [symlink_path |-> p.unique]),
                     [p.disk EXCEPT !.links = @ \cup {[path |-> p.unique,
                                                      target |-> mf.target_path]}],
                     p.unique, "", p.unique)

\* Symlinker.create_symlink(media_file).  An OSError of the link's creation
\* (something is at the path) is caught and None returned; what
\* format_symlink_path raises is raised.
create_symlink(db, d, f) ==
    LET mf == db.files[f]
        p == format_symlink_path(db, d, f)
    IN  IF Truthy("symlink_path", mf.symlink_path) /\ Exists(d, mf.symlink_path)
        THEN Outcome(db, d, mf.symlink_path, "", NULL)
        ELSE IF ~Exists(d, mf.target_path)
        THEN Outcome(db, d, NULL, "FileNotFoundError", NULL)
        ELSE IF p.error # ""
        THEN Outcome(db, p.disk, NULL, p.error, NULL)
        ELSE IF Occupied(p.disk, p.unique)
        THEN Outcome(db, p.disk, NULL, "", p.unique)
        ELSE Outcome(MediaFileHandler_update(db, f, [symlink_path |-> p.unique]),
                     [p.disk EXCEPT !.links = @ \cup {[path |-> p.unique,
                                                      target |-> mf.target_path]}],
                     p.unique, "", p.unique)

RECURSIVE SortedBySize(_, _)
\* sorted(torrent.files, key=file_size, reverse=True): the largest first,
\* files of one size in the order of torrent.files (their keys).
SortedBySize(db, S) ==
    IF S = {} THEN <<>>
    ELSE LET first == CHOOSE i \in S : \A j \in S :
                          \/ db.files[j].file_size < db.files[i].file_size
                          \/ db.files[j].file_size = db.files[i].file_size /\ i <= j
         IN  <<first>> \o SortedBySize(db, S \ {first})

RECURSIVE PassOrder(_, _)
\* The files of the torrents from t on, in the order main visits them.
PassOrder(db, t) ==
    IF t > Len(db.torrents) THEN <<>>
    ELSE SortedBySize(db, TorrentFiles(db, t)) \o PassOrder(db, t + 1)

RECURSIVE LinkFrom(_, _, _)
\* The loop of main over the files still to visit: create_symlink for each
\* file without a symlink path; what create_symlink raises ends the loop.
LinkFrom(db, d, todo) ==
    IF todo = <<>> THEN [db |-> db, disk |-> d, error |-> ""]
    ELSE IF Truthy("symlink_path", db.files[Head(todo)].symlink_path)
    THEN LinkFrom(db, d, Tail(todo))
    ELSE LET r == create_symlink(db, d, Head(todo))
         IN  IF r.error # ""
             THEN [db |-> db, disk |-> r.disk, error |-> r.error]
             ELSE LinkFrom(r.db, r.disk, Tail(todo))

\* main, the linking pass in its Repository scope: the records are written
\* when the scope is left without an exception and rolled back when it is
\* left with one; what was made on disk stays.
linking_pass(db, d) ==
    LET r == LinkFrom(db, d, PassOrder(db, 1))
    IN  IF r.error # ""
        THEN [db |-> db, disk |-> r.disk, error |-> r.error]
        ELSE r

(***************************************************************************)
(* The records and the disk the symlinker is run on: three files of one    *)
(* episode of the show 101, from three torrents, and a movie file.         *)
(***************************************************************************)
Target1 == "t1/e1.mkv"
Target2 == "t3/e1.mkv"
Target3 == "t4/e1.mkv"
MovieTarget == "t2/b.mkv"

Show101 == Media_create("show", "101", "A", Year, FALSE)
Movie202 == Media_create("movie", "202", "B", Year, FALSE)

ShowsDir == library_base \o "/shows"
MoviesDir == library_base \o "/movies"
Show101Dir == ShowsDir \o "/" \o Media_get_path(Show101).name

\* The name format_symlink_path derives for the episode, and a path of
\* another name that a record may hold.
EpisodePath == Show101Dir \o "/A (1999) - s1e1.mkv"
OldDir == ShowsDir \o "/old"
OldPath == OldDir \o "/s01e01.mkv"

LinkFiles ==
    {<<MediaFile_create(m1, 1, s1, Target1, 100, "1", "1"),
       MediaFile_create(m2, t2, NULL, Target2, 100, "1", "1"),
       MediaFile_create("101", t3, NULL, Target3, 100, "1", "1"),
       MediaFile_create("202", t3, NULL, MovieTarget, 200, NULL, NULL)>> :
        m1 \in {NULL, "101"}, m2 \in {NULL, "101"},
        s1 \in {NULL, OldPath, EpisodePath},
        t2 \in {NoneInt, 1}, t3 \in {NoneInt, 1}}

\* What is at the episode's path: nothing, a regular file, or a link to
\* the first target.
AtEpisodePath == {"nothing", "file", "link"}

LinkDisk(present, at, old, shows) ==
    [files |-> {Target3, MovieTarget} \cup present
                   \cup (IF at = "file" THEN {EpisodePath} ELSE {}),
     dirs |-> {library_base, MoviesDir}
                   \cup (IF shows THEN {ShowsDir} ELSE {})
                   \cup (IF old THEN {OldDir} ELSE {})
                   \cup (IF at # "nothing" THEN {Show101Dir} ELSE {}),
     links |-> (IF old THEN {[path |-> OldPath, target |-> Target1]} ELSE {})
                   \cup (IF at = "link"
                         THEN {[path |-> EpisodePath, target |-> Target1]}
                         ELSE {})]

\* The category directory is there when something is below it.
LinkDisks ==
    {LinkDisk(c[1], c[2], c[3], c[4]) :
        c \in {x \in (SUBSET {Target1, Target2}) \X AtEpisodePath
                        \X BOOLEAN \X BOOLEAN :
                    (x[3] \/ x[2] # "nothing") => x[4]}}

(***************************************************************************)
(* The store actions: one Repository call each.                            *)
(***************************************************************************)
NoOp == [op |-> "none"]

\* No Repository scope is open: session is the scope's session, with what
\* it holds uncommitted (work), the handler registry of its Repository, the
\* exception its body raised, and the calls __exit__ made on it.
NoSession ==
    [pc |-> "none", handlers |-> {}, work |-> EmptyStore, exc |-> "",
     commits |-> 0, rollbacks |-> 0, closes |-> 0, propagated |-> "",
     exitexc |-> ""]

Init ==
    /\ media = {}
    /\ torrents = <<>>
    /\ files = <<>>
    /\ lastOp = NoOp
    /\ pre = EmptyStore
    /\ scope \in Scopes
    /\ fs = EmptyFs
    /\ imdb = NoImdb
    /\ disk = EmptyDisk
    /\ session = NoSession

\* The call returns: its writes are committed.
Commit(db, op) ==
    /\ media' = db.media
    /\ torrents' = db.torrents
    /\ files' = db.files
    /\ pre' = Store
    /\ lastOp' = op
    /\ UNCHANGED <<scope, fs, imdb, disk, session>>

\* Repository.add(Movie | Show)
MediaAdd ==
    \E entity \in MediaEntities :
        LET r == MediaHandler_add(Store, entity)
        IN  Commit(r.db, [op |-> "MediaAdd", entity |-> entity,
                          result |-> r.result, error |-> r.error])

\* Repository.update(media, **kwargs)
MediaUpdate ==
    \E m \in media : \E kwargs \in MediaKwargs :
        LET new == EntityHandler_update(m, kwargs)
        IN  Commit([Store EXCEPT !.media = (@ \ {m}) \cup {new}],
                   [op |-> "MediaUpdate", id |-> m.id, kwargs |-> kwargs])

\* Repository.add(Torrent)
TorrentAdd ==
    \E entity \in TorrentEntities :
        LET r == TorrentHandler_add(Store, entity)
        IN  Commit(r.db, [op |-> "TorrentAdd", path |-> entity.path,
                          entity |-> entity, result |-> r.result])

\* Repository.update(torrent, **kwargs)
TorrentUpdate ==
    \E t \in DOMAIN torrents : \E kwargs \in TorrentKwargs(Store) :
        Commit(TorrentHandler_update(Store, t, kwargs),
               [op |-> "TorrentUpdate", id |-> t, kwargs |-> kwargs])

\* Repository.add(MediaFile)
MediaFileAdd ==
    \E entity \in MediaFileEntities(Store) :
        LET r == MediaFileHandler_add(Store, entity)
        IN  Commit(r.db, [op |-> "MediaFileAdd", entity |-> entity,
                          result |-> r.result, merged |-> r.merged])

\* Repository.update(media_file, **kwargs)
MediaFileUpdate ==
    \E f \in DOMAIN files : \E kwargs \in MediaFileKwargs(Store) :
        Commit(MediaFileHandler_update(Store, f, kwargs),
               [op |-> "MediaFileUpdate", id |-> f, kwargs |-> kwargs])

Next ==
    \/ MediaAdd
    \/ MediaUpdate
    \/ TorrentAdd
    \/ TorrentUpdate
    \/ MediaFileAdd
    \/ MediaFileUpdate

Spec == Init /\ [][Next]_vars

(***************************************************************************)
(* The scans: one completed pass each, over the tree the behaviour started *)
(* with.                                                                   *)
(***************************************************************************)
InitScan ==
    /\ media = {}
    /\ torrents = <<>>
    /\ files = <<>>
    /\ lastOp = NoOp
    /\ pre = EmptyStore
    /\ scope = "scan"
    /\ fs \in [library : LibraryTrees, torrents : TorrentTrees,
                broken : BrokenSets]
    /\ imdb \in ImdbAnswers
    /\ disk = EmptyDisk
    /\ session = NoSession

\* LibraryScanner.full_scan
LibraryScan ==
    Commit(library_full_scan(Store, fs.library), [op |-> "LibraryScan"])

\* TorrentScanner.full_scan
TorrentScan ==
    Commit(torrent_full_scan(Store, fs.torrents), [op |-> "TorrentScan"])

\* TorrentScanner.add_missing_media_to_torrents
ResolvePass ==
    LET r == add_missing_media_to_torrents(Store)
    IN  Commit(r.db, [op |-> "ResolvePass", error |-> r.error])

NextScan ==
    \/ LibraryScan
    \/ TorrentScan
    \/ ResolvePass

SpecScan == InitScan /\ [][NextScan]_vars

(***************************************************************************)
(* The symlinker: one create_symlink call each, on the records and disk    *)
(* the behaviour started with.  The caller's scope commits the record.     *)
(***************************************************************************)
InitLink ==
    /\ media = {Show101, Movie202}
    /\ torrents = <<Torrent_create("t1", "A", Year)>>
    /\ files \in LinkFiles
    /\ lastOp = NoOp
    /\ pre = [media |-> media, torrents |-> torrents, files |-> files]
    /\ scope = "link"
    /\ fs = EmptyFs
    /\ imdb = NoImdb
    /\ disk \in LinkDisks
    /\ session = NoSession

\* Symlinker.create_symlink(media_file)
CreateSymlink ==
    \E f \in DOMAIN files :
        LET r == create_symlink(Store, disk, f)
        IN  /\ Cardinality(disk.links) < MaxLinks
            /\ media' = r.db.media
            /\ torrents' = r.db.torrents
            /\ files' = r.db.files
            /\ disk' = r.disk
            /\ pre' = Store
            /\ lastOp' = [op |-> "CreateSymlink", id |-> f,
                          result |-> r.result, error |-> r.error,
                          unique |-> r.unique, disk0 |-> disk]
            /\ UNCHANGED <<scope, fs, imdb, session>>

\* main: the linking pass over every Torrent's files
LinkingPass ==
    LET r == linking_pass(Store, disk)
    IN  /\ Cardinality(disk.links) < MaxLinks
        /\ media' = r.db.media
        /\ torrents' = r.db.torrents
        /\ files' = r.db.files
        /\ disk' = r.disk
        /\ pre' = Store
        /\ lastOp' = [op |-> "LinkingPass", error |-> r.error, disk0 |-> disk]
        /\ UNCHANGED <<scope, fs, imdb, session>>

NextLink ==
    \/ CreateSymlink
    \/ LinkingPass

SpecLink == InitLink /\ [][NextLink]_vars

(***************************************************************************)
(* The Repository scope: with Repository(Session()) as repo, the calls of  *)
(* its body on the session, and __exit__.  The store variables hold what   *)
(* is committed, session.work what the session has flushed.                *)
(***************************************************************************)
\* Repository.__init__: the classes a handler is registered for.
DefaultHandlers == {"media", "movie", "show", "torrent", "media_file"}

\* The registries of the model: the default one, and the default one with
\* the Movie handler deleted.
Registries == {DefaultHandlers, DefaultHandlers \ {"movie"}}

\* The classes a call can name: the mapped ones and a class outside them.
Classes == DefaultHandlers \cup {"unregistered"}

\* cls.__mro__[1:], the registrable classes of it.
Mro(cls) == IF cls \in {"movie", "show"} THEN <<"media">> ELSE <<>>

NoHandler == "TypeError"

\* The first class of the sequence with a handler.
FirstRegistered(handlers, classes) ==
    IF \E i \in DOMAIN classes : classes[i] \in handlers
    THEN classes[Min({i \in DOMAIN classes : classes[i] \in handlers})]
    ELSE NoHandler

\* _get_handler answering the Media handler for any class without one.
get_handler_default_media(handlers, cls) ==
    IF cls \in handlers THEN cls ELSE "media"

\* Repository._get_handler: the class whose handler serves cls.
get_handler(handlers, cls) ==
    IF cls \in handlers THEN cls ELSE FirstRegistered(handlers, Mro(cls))

\* self._handlers.get(entity_type) of get, get_by_id and get_all.
handlers_get(handlers, cls) == IF cls \in handlers THEN cls ELSE NoHandler

\* type(entity) of an entity handed to add, update or delete.
TypeOf(entity) ==
    IF "kind" \in DOMAIN entity THEN entity.kind
    ELSE IF "torrent_title" \in DOMAIN entity THEN "torrent"
    ELSE "media_file"

\* An instance of a class outside the registry.
UnregisteredEntity == Media_create("unregistered", "900", "A", Year, FALSE)

\* session.query(model_class).all()
query_all(db, cls) ==
    CASE cls = "torrent" -> {db.torrents[i] : i \in DOMAIN db.torrents}
      [] cls = "media_file" -> {db.files[i] : i \in DOMAIN db.files}
      [] OTHER -> {r \in db.media : IsSubclass(r.kind, cls)}

\* What a Repository call hands back: the session's store, the handler
\* that served it (NoHandler when none), the result and the exception.
Served(db, handler, result, error) ==
    [db |-> db, handler |-> handler, result |-> result, error |-> error]

\* MediaHandler.add of the handler whose model class is cls.
MediaHandler_add_for(db, cls, entity) ==
    LET existing == get_by_id(db, cls, entity.id)
    IN  IF existing # {} THEN Served(db, cls, existing, "")
        ELSE IF MediaInsert(db, entity).error
        THEN Served(db, cls, {}, "IntegrityError")
        ELSE Served(MediaInsert(db, entity).db, cls, {entity}, "")

\* Repository.add(entity)
Repository_add(handlers, db, entity) ==
    LET h == get_handler(handlers, TypeOf(entity))
    IN  IF h = NoHandler THEN Served(db, h, {}, "TypeError")
        ELSE IF h = "torrent"
        THEN Served(TorrentHandler_add(db, entity).db, h,
                    {TorrentHandler_add(db, entity).result}, "")
        ELSE MediaHandler_add_for(db, h, entity)

\* Repository.update(entity, **kwargs) of a Media
Repository_update(handlers, db, entity, kwargs) ==
    LET h == get_handler(handlers, TypeOf(entity))
        new == EntityHandler_update(entity, kwargs)
    IN  IF h = NoHandler THEN Served(db, h, {}, "TypeError")
        ELSE Served([db EXCEPT !.media = (@ \ {entity}) \cup {new}], h, {new}, "")

\* Repository.delete(entity) of a Media that no row refers to
Repository_delete(handlers, db, entity) ==
    LET h == get_handler(handlers, TypeOf(entity))
    IN  IF h = NoHandler THEN Served(db, h, {}, "TypeError")
        ELSE Served([db EXCEPT !.media = @ \ {entity}], h, {}, "")

\* Repository.get(entity_type) and Repository.get_all(entity_type)
Repository_get_all(handlers, db, cls) ==
    LET h == handlers_get(handlers, cls)
    IN  IF h = NoHandler THEN Served(db, h, {}, "TypeError")
        ELSE Served(db, h, query_all(db, h), "")

\* Repository.get_by_id(entity_type, id_value)
Repository_get_by_id(handlers, db, cls, id) ==
    LET h == handlers_get(handlers, cls)
    IN  IF h = NoHandler THEN Served(db, h, {}, "TypeError")
        ELSE Served(db, h, get_by_id(db, h, id), "")

\* The entities the body of a scope hands to add.
ScopeEntities ==
    {Media_create(k, i, "A", Year, FALSE) : k \in KindSet, i \in MediaIdSet}
        \cup {Torrent_create("t1", "A", Year)} \cup {UnregisteredEntity}

\* What session.commit() or session.rollback() raises when the database
\* refuses it.
ExitError == "OperationalError"

\* __exit__ committing whatever the body did.
Repository_exit_commit_always(s, committed, raises) ==
    [session |-> [s EXCEPT !.pc = "closed", !.commits = @ + 1,
                           !.closes = @ + 1, !.propagated = s.exc],
     store |-> s.work]

\* __exit__ without the finally clause: close is reached only when the
\* commit or the rollback returned.
Repository_exit_no_finally(s, committed, raises) ==
    IF raises
    THEN [session |-> [s EXCEPT !.pc = "closed", !.work = committed,
                                !.commits = IF s.exc = "" THEN @ + 1 ELSE @,
                                !.rollbacks = IF s.exc # "" THEN @ + 1 ELSE @,
                                !.propagated = ExitError,
                                !.exitexc = ExitError],
          store |-> committed]
    ELSE Repository_exit_commit_always(s, committed, raises)

\* Repository.__exit__: rollback when the body raised, commit when it did
\* not, close in both cases (finally); the exception is not suppressed.
\* raises: the commit or the rollback itself raises; nothing is committed
\* then, and its exception is the one that leaves __exit__.
Repository_exit(s, committed, raises) ==
    IF s.exc # ""
    THEN [session |-> [s EXCEPT !.pc = "closed", !.rollbacks = @ + 1,
                                !.closes = @ + 1, !.work = committed,
                                !.propagated = IF raises THEN ExitError ELSE s.exc,
                                !.exitexc = IF raises THEN ExitError ELSE ""],
          store |-> committed]
    ELSE IF raises
    THEN [session |-> [s EXCEPT !.pc = "closed", !.commits = @ + 1,
                                !.closes = @ + 1, !.work = committed,
                                !.propagated = ExitError,
                                !.exitexc = ExitError],
          store |-> committed]
    ELSE [session |-> [s EXCEPT !.pc = "closed", !.commits = @ + 1,
                                !.closes = @ + 1],
          store |-> s.work]

InitScope ==
    /\ media = {}
    /\ torrents = <<>>
    /\ files = <<>>
    /\ lastOp = NoOp
    /\ pre = EmptyStore
    /\ scope = "with"
    /\ fs = EmptyFs
    /\ imdb = NoImdb
    /\ disk = EmptyDisk
    /\ session = NoSession

\* Repository(Session()).__enter__ on a new session
Enter ==
    /\ session.pc \in {"none", "closed"}
    /\ \E handlers \in Registries :
           session' = [NoSession EXCEPT !.pc = "open", !.handlers = handlers,
                                        !.work = Store]
    /\ lastOp' = [op |-> "Enter"]
    /\ pre' = Store
    /\ UNCHANGED <<media, torrents, files, scope, fs, imdb, disk>>

\* One call of the body: what it raises ends the body.
Call(name, cls, r) ==
    /\ session' = [session EXCEPT !.work = r.db, !.exc = r.error,
                                  !.pc = IF r.error = "" THEN "open" ELSE "raised"]
    /\ lastOp' = [op |-> "RepoCall", call |-> name, cls |-> cls,
                  handler |-> r.handler, result |-> r.result,
                  error |-> r.error, work0 |-> session.work]
    /\ UNCHANGED <<media, torrents, files, pre, scope, fs, imdb, disk>>

\* repo.add(entity) in the body
RepoAdd ==
    /\ session.pc = "open"
    /\ \E entity \in ScopeEntities :
           Call("add", TypeOf(entity),
                Repository_add(session.handlers, session.work, entity))

\* repo.update(entity, title=...) in the body
RepoUpdate ==
    /\ session.pc = "open"
    /\ \E entity \in session.work.media \cup {UnregisteredEntity} :
       \E kwargs \in MediaKwargs :
           Call("update", TypeOf(entity),
                Repository_update(session.handlers, session.work, entity, kwargs))

\* repo.delete(entity) in the body
RepoDelete ==
    /\ session.pc = "open"
    /\ \E entity \in session.work.media \cup {UnregisteredEntity} :
           Call("delete", TypeOf(entity),
                Repository_delete(session.handlers, session.work, entity))

\* repo.get(cls) and repo.get_all(cls) in the body
RepoGetAll ==
    /\ session.pc = "open"
    /\ \E cls \in Classes : \E name \in {"get", "get_all"} :
           Call(name, cls,
                Repository_get_all(session.handlers, session.work, cls))

\* repo.get_by_id(cls, id) in the body
RepoGetById ==
    /\ session.pc = "open"
    /\ \E cls \in Classes \ {"torrent", "media_file"} : \E id \in MediaIdSet :
           Call("get_by_id", cls,
                Repository_get_by_id(session.handlers, session.work, cls, id))

\* The body raises an exception of its own.
BodyRaise ==
    /\ session.pc = "open"
    /\ session' = [session EXCEPT !.pc = "raised", !.exc = "ValueError"]
    /\ lastOp' = [op |-> "BodyRaise"]
    /\ UNCHANGED <<media, torrents, files, pre, scope, fs, imdb, disk>>

\* Repository.__exit__(exc_type, exc_val, exc_tb)
Exit ==
    /\ session.pc \in {"open", "raised"}
    /\ \E raises \in BOOLEAN :
       LET r == Repository_exit(session, Store, raises)
       IN  /\ session' = r.session
           /\ media' = r.store.media
           /\ torrents' = r.store.torrents
           /\ files' = r.store.files
    /\ lastOp' = [op |-> "Exit", work0 |-> session.work]
    /\ UNCHANGED <<pre, scope, fs, imdb, disk>>

NextScope ==
    \/ Enter
    \/ RepoAdd
    \/ RepoUpdate
    \/ RepoDelete
    \/ RepoGetAll
    \/ RepoGetById
    \/ BodyRaise
    \/ Exit

SpecScope == InitScope /\ [][NextScope]_vars

(***************************************************************************)
(* The resolver's anime test, on the genre and country lists of a fetched  *)
(* title.  A list argument is None or a list of strings.                   *)
(***************************************************************************)
GenreSet == {"Anime", "Animation", "Action", "anime"}
CountrySet == {"Japan", "USA"}

NoneList == [none |-> TRUE, items |-> <<>>]
ListOf(items) == [none |-> FALSE, items |-> items]

\* The lists over S of at most MaxList items, and None.
ListArgs(S) ==
    {NoneList} \cup {ListOf(l) : l \in UNION {[1..n -> S] : n \in 0..MaxList}}

\* genres or []: None and the empty list give the empty list.
OrEmpty(arg) == IF arg.none \/ arg.items = <<>> THEN <<>> ELSE arg.items

\* x in list
In(x, list) == \E i \in DOMAIN list : list[i] = x

\* _is_anime taking every animation for anime.
is_anime_any_animation(genres, countries) ==
    In("Anime", OrEmpty(genres)) \/ In("Animation", OrEmpty(genres))

\* Resolver._is_anime(genres, countries)
is_anime(genres, countries) ==
    \/ In("Anime", OrEmpty(genres))
    \/ In("Animation", OrEmpty(genres)) /\ In("Japan", OrEmpty(countries))

InitAnime ==
    /\ media = {}
    /\ torrents = <<>>
    /\ files = <<>>
    /\ lastOp = NoOp
    /\ pre = EmptyStore
    /\ scope = "anime"
    /\ fs = EmptyFs
    /\ imdb \in [genres : ListArgs(GenreSet), countries : ListArgs(CountrySet)]
    /\ disk = EmptyDisk
    /\ session = NoSession

\* get_media: self._is_anime(media.get("genres", []), media.get("countries", []))
IsAnime ==
    /\ lastOp' = [op |-> "IsAnime", genres |-> imdb.genres,
                  countries |-> imdb.countries,
                  anime |-> is_anime(imdb.genres, imdb.countries)]
    /\ UNCHANGED <<media, torrents, files, pre, scope, fs, imdb, disk, session>>

NextAnime == IsAnime

SpecAnime == InitAnime /\ [][NextAnime]_vars

(***************************************************************************)
(* The resolver's identity search, on what the search of the service       *)
(* answers: it raises, or returns a list of results, each with a kind      *)
(* label (None when the result has none) and an id.                        *)
(***************************************************************************)
SHOW_TYPES == {"tv series", "tv mini series"}
VALID_TYPES == {"movie", "show"}

\* The kind labels of the results, None included.
ResultKinds == {"tv series", "tv mini series", "movie", "episode", NULL}

\* The result lists of at most MaxResults results; a result's id tells its
\* place in the list.
SearchResults ==
    UNION {{[i \in 1..n |-> [kind |-> kinds[i], movieID |-> IntToStr(i)]] :
                kinds \in [1..n -> ResultKinds]} : n \in 0..MaxResults}

\* "show" if result.get("kind") in self.SHOW_TYPES else "movie"
ResultType(result) == IF result.kind \in SHOW_TYPES THEN "show" ELSE "movie"

\* What get_imdb_id hands back: the id (NULL for None or when it raises)
\* and the exception raised ("" when none).
Found(result, error) == [result |-> result, error |-> error]

RECURSIVE LastMatch(_, _)
\* The loop keeping the last result of the kind.
LastMatch(results, kind) ==
    IF results = <<>> THEN NULL
    ELSE IF ResultType(results[Len(results)]) = kind
    THEN results[Len(results)].movieID
    ELSE LastMatch(SubSeq(results, 1, Len(results) - 1), kind)

\* get_imdb_id returning the last result of the kind.
get_imdb_id_last_match(title, kind, search) ==
    IF title = "" \/ kind \notin VALID_TYPES THEN Found(NULL, "ValueError")
    ELSE IF search.raises THEN Found(NULL, SearchError)
    ELSE Found(LastMatch(search.results, kind), "")

RECURSIVE FirstMatch(_, _)
\* get_imdb_id, the loop over the results.
FirstMatch(results, kind) ==
    IF results = <<>> THEN NULL
    ELSE IF ResultType(Head(results)) = kind THEN Head(results).movieID
    ELSE FirstMatch(Tail(results), kind)

\* Resolver.get_imdb_id(title, year, kind); search is what
\* self.ia.search_movie does for the search string.
get_imdb_id(title, kind, search) ==
    IF title = "" \/ kind \notin VALID_TYPES THEN Found(NULL, "ValueError")
    ELSE IF search.raises THEN Found(NULL, SearchError)
    ELSE Found(FirstMatch(search.results, kind), "")

InitSearch ==
    /\ media = {}
    /\ torrents = <<>>
    /\ files = <<>>
    /\ lastOp = NoOp
    /\ pre = EmptyStore
    /\ scope = "search"
    /\ fs = EmptyFs
    /\ imdb \in [raises : BOOLEAN, results : SearchResults]
    /\ disk = EmptyDisk
    /\ session = NoSession

\* resolver.get_imdb_id(title, year, kind)
GetImdbId ==
    /\ \E title \in {"", "A"} : \E kind \in VALID_TYPES \cup {"tv series"} :
           lastOp' = [op |-> "GetImdbId", title |-> title, kind |-> kind,
                      found |-> get_imdb_id(title, kind, imdb)]
    /\ UNCHANGED <<media, torrents, files, pre, scope, fs, imdb, disk, session>>

NextSearch == GetImdbId

SpecSearch == InitSearch /\ [][NextSearch]_vars

(***************************************************************************)
(* The category directories.  The symlinker places a Media's directory     *)
(* (Media.get_path); the library scanner lists the directories of its      *)
(* Categories and registers what it finds.  fs.categories is the scanner's *)
(* Categories.                                                             *)
(***************************************************************************)
\* Categories.__init__: a name that is not given is the default.
Categories_init(separate_animes, movies, shows, anime_movies, anime_shows) ==
    [separate_animes |-> separate_animes,
     movies |-> IF movies = NULL THEN "movies" ELSE movies,
     shows |-> IF shows = NULL THEN "shows" ELSE shows,
     anime_movies |-> IF anime_movies = NULL THEN "anime_movies" ELSE anime_movies,
     anime_shows |-> IF anime_shows = NULL THEN "anime_shows" ELSE anime_shows]

\* The Categories a scanner is made with: the defaults, the names of the
\* test fixture, and names of the user's own.
CategoryConfigs ==
    {Categories_init(sep, m, sh, am, ash) :
        sep \in BOOLEAN, m \in {NULL, "custom_movies", "films"},
        sh \in {NULL, "custom_shows"}, am \in {NULL, "custom_anime_movies"},
        ash \in {NULL, "cartoons"}}

\* Categories.get_all_paths: the category directories, in listing order.
get_all_paths(c) ==
    IF c.separate_animes
    THEN <<c.movies, c.shows, c.anime_movies, c.anime_shows>>
    ELSE <<c.movies, c.shows>>

\* What a category role is named in the Categories.
RoleName(c, role) ==
    CASE role = "movies" -> c.movies [] role = "shows" -> c.shows
      [] role = "anime_movies" -> c.anime_movies
      [] role = "anime_shows" -> c.anime_shows

RECURSIVE get_media_paths(_, _)
\* LibraryScanner.get_media_paths: the directories of tree below each
\* category directory in turn; a category directory that is not there
\* lists nothing.
get_media_paths(names, tree) ==
    IF names = <<>> THEN <<>>
    ELSE SelectSeq(tree, LAMBDA dir : dir.category = Head(names))
             \o get_media_paths(Tail(names), tree)

\* The Media whose directories are placed: a movie and a show, each anime
\* or not.
PlacedMedia ==
    {Media_create("movie", "202", "B", Year, a) : a \in BOOLEAN}
        \cup {Media_create("show", "101", "A", Year, a) : a \in BOOLEAN}

\* The directory of Media m with one video file, in the category
\* directory of the name.
MediaDirIn(category, m) ==
    [category |-> category, imdb_id |-> m.id, title |-> m.title,
     year |-> m.year,
     files |-> <<LibraryFile("lib/" \o m.id \o "/f", NULL, NULL, NULL)>>]

\* LibraryScanner.full_scan of a scanner made with Categories c, on a
\* library that holds the directories of tree and an empty store.
library_scan_of(c, tree) ==
    library_full_scan(EmptyStore, get_media_paths(get_all_paths(c), tree))

InitCategory ==
    /\ media = {}
    /\ torrents = <<>>
    /\ files = <<>>
    /\ lastOp = NoOp
    /\ pre = EmptyStore
    /\ scope = "category"
    /\ fs \in {[library |-> <<>>, torrents |-> <<>>, broken |-> {},
                 categories |-> c] : c \in CategoryConfigs}
    /\ imdb = NoImdb
    /\ disk = EmptyDisk
    /\ session = NoSession

\* Symlinker.create_media_directory for a Media, then
\* LibraryScanner.full_scan on the library that holds the directory.
RoundTrip ==
    /\ \E m \in PlacedMedia :
           lastOp' = [op |-> "RoundTrip", media |-> m,
                      category |-> Media_category(m),
                      registered |->
                          library_scan_of(fs.categories,
                              <<MediaDirIn(Media_category(m), m)>>).media]
    /\ UNCHANGED <<media, torrents, files, pre, scope, fs, imdb, disk, session>>

\* LibraryScanner.full_scan on a library that holds a Media's directory
\* in the directory its Categories name for the Media's kind and anime
\* flag.
ScanCategory ==
    /\ \E m \in PlacedMedia :
           LET name == RoleName(fs.categories, Media_category(m))
           IN  lastOp' = [op |-> "ScanCategory", media |-> m,
                          category |-> name,
                          registered |->
                              library_scan_of(fs.categories,
                                  <<MediaDirIn(name, m)>>).media]
    /\ UNCHANGED <<media, torrents, files, pre, scope, fs, imdb, disk, session>>

NextCategory ==
    \/ RoundTrip
    \/ ScanCategory

SpecCategory == InitCategory /\ [][NextCategory]_vars

(***************************************************************************)
(* Properties of the store calls.  pre is the store before the last call,  *)
(* lastOp the call and what it returned.                                   *)
(***************************************************************************)
IsOp(name) == lastOp.op = name

\* new is old after a fill-only write of kwargs.
FillOnly(old, new, kwargs) ==
    \A a \in DOMAIN kwargs \cap DOMAIN old :
        new[a] = IF old[a] = None(a) THEN kwargs[a] ELSE old[a]

\* C1: an update call leaves every named attribute that was unset at the
\* supplied value and every named attribute that was set at its old value,
\* for a MediaFile, a Torrent and a Media.
C1_FillOnlyUpdate ==
    /\ IsOp("MediaFileUpdate") =>
          FillOnly(pre.files[lastOp.id], files[lastOp.id], lastOp.kwargs)
    /\ IsOp("TorrentUpdate") =>
          FillOnly(pre.torrents[lastOp.id], torrents[lastOp.id], lastOp.kwargs)
    /\ IsOp("MediaUpdate") =>
          \A old \in pre.media : old.id = lastOp.id =>
              \E new \in media :
                  new.id = lastOp.id /\ FillOnly(old, new, lastOp.kwargs)

\* C1 witness: the second update of season, with another value, has run and
\* the first value is in place.
C1_Witness ==
    /\ IsOp("MediaFileUpdate")
    /\ "season" \in DOMAIN lastOp.kwargs
    /\ pre.files[lastOp.id].season = "01"
    /\ lastOp.kwargs.season = "02"
    /\ files[lastOp.id].season = "01"

\* C1 witness of the first half: an unset season has taken the value.
C1_WitnessFill ==
    /\ IsOp("MediaFileUpdate")
    /\ "season" \in DOMAIN lastOp.kwargs
    /\ pre.files[lastOp.id].season = NULL
    /\ files[lastOp.id].season = lastOp.kwargs.season

\* C2: no store call changes a Torrent's Media reference once it is set.
C2_TorrentMediaWriteOnce ==
    \A t \in DOMAIN pre.torrents :
        pre.torrents[t].media_id # NULL =>
            torrents[t].media_id = pre.torrents[t].media_id

\* The Torrent update moved the Torrent's Media reference from unset to set.
TorrentMediaSetBy(name, t) ==
    /\ IsOp(name)
    /\ t \in DOMAIN pre.torrents
    /\ pre.torrents[t].media_id = NULL
    /\ torrents[t].media_id # NULL

\* C3: a Torrent update that sets the Media reference gives it to every
\* child MediaFile whose reference was unset.
C3_FanOut ==
    TorrentMediaSetBy("TorrentUpdate", lastOp.id) =>
        \A f \in TorrentFiles(pre, lastOp.id) :
            pre.files[f].media_id = NULL =>
                files[f].media_id = torrents[lastOp.id].media_id

\* C3 witness: the update reached two children that had no reference.
C3_Witness ==
    /\ TorrentMediaSetBy("TorrentUpdate", lastOp.id)
    /\ \E f, g \in TorrentFiles(pre, lastOp.id) :
          /\ f # g
          /\ pre.files[f].media_id = NULL
          /\ pre.files[g].media_id = NULL
          /\ files[f].media_id = torrents[lastOp.id].media_id
          /\ files[g].media_id = torrents[lastOp.id].media_id

\* C4: a Torrent update that sets the Media reference leaves every child
\* MediaFile whose reference was set with the reference it had.
C4_FanOutNeverOverwrites ==
    TorrentMediaSetBy("TorrentUpdate", lastOp.id) =>
        \A f \in TorrentFiles(pre, lastOp.id) :
            pre.files[f].media_id # NULL =>
                files[f].media_id = pre.files[f].media_id

\* The key of the MediaFile the last call updated: the target of an update
\* call, the record an upsert merged into; 0 otherwise.
UpdatedFile ==
    CASE IsOp("MediaFileUpdate") -> lastOp.id
      [] IsOp("MediaFileAdd") /\ lastOp.merged -> lastOp.result
      [] OTHER -> 0

\* C5: after a MediaFile update that leaves the record with a Torrent and
\* a Media reference, a parent Torrent whose reference was unset holds the
\* file's reference.  References name stored rows, as the declared foreign
\* keys require.
C5_BackFill ==
    UpdatedFile # 0 =>
        LET e == files[UpdatedFile]
        IN  (/\ e.torrent_id \in DOMAIN pre.torrents
             /\ e.media_id # NULL
             /\ pre.torrents[e.torrent_id].media_id = NULL)
            => torrents[e.torrent_id].media_id = e.media_id

\* C5 witness: an update call gave the file its Media reference and the
\* parent Torrent, unset before, now holds it.
C5_Witness ==
    /\ IsOp("MediaFileUpdate")
    /\ "media_id" \in DOMAIN lastOp.kwargs
    /\ pre.files[lastOp.id].media_id = NULL
    /\ pre.files[lastOp.id].torrent_id \in DOMAIN pre.torrents
    /\ pre.torrents[pre.files[lastOp.id].torrent_id].media_id = NULL
    /\ torrents[files[lastOp.id].torrent_id].media_id = lastOp.kwargs.media_id

\* C6: when a MediaFile update sets the parent Torrent's Media reference,
\* every sibling that lacked a reference holds the Torrent's reference.
C6_SiblingPropagation ==
    UpdatedFile # 0 =>
        \A t \in DOMAIN pre.torrents :
            (/\ files[UpdatedFile].torrent_id = t
             /\ pre.torrents[t].media_id = NULL
             /\ torrents[t].media_id # NULL)
            => \A g \in TorrentFiles(pre, t) \ {UpdatedFile} :
                   pre.files[g].media_id = NULL =>
                       files[g].media_id = torrents[t].media_id

\* No two rows share a target path, no two share a symlink path.
PathsUnique(table) ==
    \A i, j \in DOMAIN table :
        i # j =>
            /\ table[i].target_path # table[j].target_path
            /\ table[i].symlink_path # NULL =>
                  table[i].symlink_path # table[j].symlink_path

\* The entity carries a path that a stored row holds.
SharesPath(table, entity) ==
    \E i \in DOMAIN table :
        LET stored == {table[i].target_path, table[i].symlink_path} \ {NULL}
        IN  \/ entity.target_path \in stored
            \/ entity.symlink_path \in stored

\* C8: an upsert into a table with unique paths merges when the entity
\* carries a stored path, and leaves the paths unique.
C8_PathUniqueness ==
    (IsOp("MediaFileAdd") /\ PathsUnique(pre.files)) =>
        /\ SharesPath(pre.files, lastOp.entity) => lastOp.merged
        /\ PathsUnique(files)

\* The path MediaFileHandler.add looks the entity up by.
LookupPath(entity) ==
    IF entity.symlink_path # NULL THEN entity.symlink_path
    ELSE entity.target_path

FoundByPath(table, entity) ==
    {i \in DOMAIN table : LookupPath(entity) \in
                            {table[i].target_path, table[i].symlink_path}}

\* C9: an upsert that finds a record by path adds no row, returns the
\* record, fills its unset attributes from the entity's non-null ones and
\* leaves its set attributes alone.
C9_MergeResult ==
    (IsOp("MediaFileAdd") /\ FoundByPath(pre.files, lastOp.entity) # {}) =>
        /\ Len(files) = Len(pre.files)
        /\ lastOp.result \in FoundByPath(pre.files, lastOp.entity)
        /\ LET old == pre.files[lastOp.result]
               new == files[lastOp.result]
           IN  \A a \in DOMAIN old :
                   new[a] = IF old[a] = None(a) THEN lastOp.entity[a]
                            ELSE old[a]

\* C9 witness: a merge filled the episode and kept the season against
\* another incoming value.
C9_Witness ==
    /\ IsOp("MediaFileAdd")
    /\ lastOp.merged
    /\ pre.files[lastOp.result].season = "01"
    /\ lastOp.entity.season = "02"
    /\ files[lastOp.result].season = "01"
    /\ pre.files[lastOp.result].episode = NULL
    /\ lastOp.entity.episode = "01"
    /\ files[lastOp.result].episode = "01"

\* C10: adding a Media whose id is stored, of either kind, returns the
\* stored record, raises nothing and leaves the table as it was; the table
\* never holds two Media with one id.
C10_MediaFirstWriterWins ==
    /\ \A r, q \in media : r.id = q.id => r = q
    /\ IsOp("MediaAdd") =>
          \A r \in pre.media :
              r.id = lastOp.entity.id =>
                  /\ ~lastOp.error
                  /\ lastOp.result = r
                  /\ media = pre.media

\* C7: after completed scans and resolution passes, no Torrent with a
\* Media reference has a child MediaFile without one.
C7_CascadeInvariant ==
    \A t \in DOMAIN torrents :
        torrents[t].media_id # NULL =>
            \A f \in TorrentFiles(Store, t) : files[f].media_id # NULL

\* C11: adding a Torrent whose path is stored returns the stored Torrent,
\* leaves the table as it was, and no two Torrents share a path.
C11_TorrentUpsertSkips ==
    /\ \A i, j \in DOMAIN torrents :
          torrents[i].path = torrents[j].path => i = j
    /\ IsOp("TorrentAdd") =>
          \A t \in DOMAIN pre.torrents :
              pre.torrents[t].path = lastOp.entity.path =>
                  /\ lastOp.result = t
                  /\ torrents = pre.torrents

\* C11 witness: a Torrent with a stored path and another title was added
\* next to a Torrent of another path, and the stored title is in place.
C11_Witness ==
    /\ IsOp("TorrentAdd")
    /\ Len(pre.torrents) = 2
    /\ \E t \in DOMAIN pre.torrents :
          /\ pre.torrents[t].path = lastOp.entity.path
          /\ pre.torrents[t].torrent_title # lastOp.entity.torrent_title
          /\ torrents[t].torrent_title = pre.torrents[t].torrent_title
          /\ lastOp.result = t

\* C12: on the tree a library scan has just indexed, one more library scan
\* leaves the store as it is.
C12_LibraryScanIdempotent ==
    IsOp("LibraryScan") => library_full_scan(Store, fs.library) = Store

\* C12 witness: a library scan ran on a store that held the library's
\* records of two directories, and changed nothing.
C12_Witness ==
    /\ IsOp("LibraryScan")
    /\ pre = Store
    /\ Len(fs.library) = 2
    /\ \A d \in DOMAIN fs.library :
          \E f \in DOMAIN files :
              /\ files[f].symlink_path = fs.library[d].files[1].path
              /\ files[f].media_id = fs.library[d].imdb_id

\* The files of the library tree, of all its media directories.
LibraryFiles ==
    UNION {{fs.library[d].files[i] : i \in DOMAIN fs.library[d].files} :
               d \in DOMAIN fs.library}

\* C33: after a library scan, the record of a library file that is not a
\* symbolic link has no target path, and the record of one that is a link
\* has the link's resolved target.
C33_PlainFileNoTarget ==
    IsOp("LibraryScan") =>
        \A file \in LibraryFiles : \A f \in DOMAIN files :
            (f \notin DOMAIN pre.files /\ files[f].symlink_path = file.path) =>
                files[f].target_path = file.link

\* The keys of the MediaFiles of db that are children of Torrent t.
ChildrenIn(db, t) == {f \in DOMAIN db.files : db.files[f].torrent_id = t}

\* C32: on the tree a torrent scan has just indexed, one more torrent scan
\* leaves the store as it is; and a torrent scan leaves every Torrent that
\* was stored before it, and that Torrent's MediaFiles, as they were.
C32_TorrentScanIdempotent ==
    IsOp("TorrentScan") =>
        /\ torrent_full_scan(Store, fs.torrents) = Store
        /\ \A t \in DOMAIN pre.torrents :
              /\ torrents[t] = pre.torrents[t]
              /\ ChildrenIn(Store, t) = ChildrenIn(pre, t)
              /\ \A f \in ChildrenIn(pre, t) : files[f] = pre.files[f]

\* C32 witness: a torrent scan ran on a store that held the Torrents of
\* the tree's directories with their files, and changed nothing.
C32_Witness ==
    /\ IsOp("TorrentScan")
    /\ pre = Store
    /\ Len(torrents) >= 2
    /\ \A d \in DOMAIN fs.torrents :
          fs.torrents[d].title # NULL =>
              /\ Torrent_get_by_path(Store, fs.torrents[d].path) # 0
              /\ ChildrenIn(Store, Torrent_get_by_path(Store, fs.torrents[d].path)) # {}

\* The files of a torrent directory that index_torrent makes records of.
SelectedFiles(dir) ==
    IF dir.kind = "movie" THEN {MaxBySize(dir.files).path}
    ELSE {dir.files[i].path : i \in
            {j \in DOMAIN dir.files :
                HasSeasonAndEpisode(parse_torrent_episode(dir.files[j]))}}

\* The library scan and the torrent scan have both run, once each, on the
\* empty store.
ScannedBoth ==
    \/ IsOp("TorrentScan") /\ pre = library_full_scan(EmptyStore, fs.library)
    \/ IsOp("LibraryScan") /\ pre = torrent_full_scan(EmptyStore, fs.torrents)

\* C13: after the two scans in either order, a library link into a file
\* the torrent scan selects has one record, with the library's Media, the
\* Torrent, and the Torrent holding that Media.
C13_ScanOrderIndependence ==
    ScannedBoth =>
        \A d \in DOMAIN fs.library : \A k \in DOMAIN fs.torrents :
            \A i \in DOMAIN fs.library[d].files :
                LET link == fs.library[d].files[i].link
                    rows == {f \in DOMAIN files : files[f].target_path = link}
                    t == Torrent_get_by_path(Store, fs.torrents[k].path)
                IN  link \in SelectedFiles(fs.torrents[k]) =>
                        /\ Cardinality(rows) = 1
                        /\ t # 0
                        /\ \A f \in rows :
                              /\ files[f].media_id = fs.library[d].imdb_id
                              /\ files[f].torrent_id = t
                              /\ torrents[t].media_id = fs.library[d].imdb_id

\* The torrent directories of kind k that the last torrent scan indexed.
NewlyIndexed(k) ==
    {d \in DOMAIN fs.torrents :
        /\ IsOp("TorrentScan")
        /\ fs.torrents[d].kind = k
        /\ Torrent_get_by_path(pre, fs.torrents[d].path) = 0
        /\ Torrent_get_by_path(Store, fs.torrents[d].path) # 0}

\* The row's target is a file of the directory of the greatest size.
TargetIsLargest(row, dir) ==
    \E i \in DOMAIN dir.files :
        /\ dir.files[i].path = row.target_path
        /\ \A j \in DOMAIN dir.files : dir.files[j].size <= dir.files[i].size

\* C14 as stated: indexing a movie torrent inserts one MediaFile for the
\* torrent, whose target is a file of the greatest size.
C14_MovieInsertsOne ==
    \A d \in NewlyIndexed("movie") :
        LET t == Torrent_get_by_path(Store, fs.torrents[d].path)
            rows == TorrentFiles(Store, t)
        IN  /\ Cardinality(rows) = 1
            /\ \A f \in rows :
                  /\ f \notin DOMAIN pre.files
                  /\ TargetIsLargest(files[f], fs.torrents[d])

\* C14 amended: indexing a movie torrent leaves one MediaFile for the
\* torrent, inserted or merged into the record stored under the target
\* path, whose target is a file of the greatest size.
C14_MovieSelection ==
    \A d \in NewlyIndexed("movie") :
        LET t == Torrent_get_by_path(Store, fs.torrents[d].path)
            rows == TorrentFiles(Store, t)
        IN  /\ Cardinality(rows) = 1
            /\ \A f \in rows : TargetIsLargest(files[f], fs.torrents[d])

\* C14 witness: a movie torrent of sizes 100, 200, 50 was indexed and its
\* one record, the library's record of the 200-byte file, was merged.
C14_Witness ==
    \E d \in NewlyIndexed("movie") :
        LET t == Torrent_get_by_path(Store, fs.torrents[d].path)
        IN  /\ fs.torrents[d] = MovieDir
            /\ \E f \in DOMAIN pre.files :
                  /\ TorrentFiles(Store, t) = {f}
                  /\ files[f].target_path = "t2/b"
                  /\ pre.files[f].torrent_id = NoneInt

\* C14 witness of an insertion, with two files of the greatest size.
C14_WitnessInsert ==
    \E d \in NewlyIndexed("movie") :
        LET t == Torrent_get_by_path(Store, fs.torrents[d].path)
        IN  /\ fs.torrents[d] = MovieDirTie
            /\ \E f \in DOMAIN files \ DOMAIN pre.files :
                  /\ TorrentFiles(Store, t) = {f}
                  /\ files[f].target_path = "t2/b"

\* C15: indexing a show torrent makes a record of a file exactly when a
\* season and an episode were extracted for it, whatever their values.
C15_ShowFileSelection ==
    \A d \in NewlyIndexed("show") :
        LET t == Torrent_get_by_path(Store, fs.torrents[d].path)
        IN  \A i \in DOMAIN fs.torrents[d].files :
                LET file == fs.torrents[d].files[i]
                    se == parse_torrent_episode(file)
                IN  (\E f \in TorrentFiles(Store, t) :
                        files[f].target_path = file.path)
                    <=> (se[1] # NoneInt /\ se[2] # NoneInt)

(***************************************************************************)
(* Properties of create_symlink.  lastOp.disk0 is the disk before the call *)
(* and pre the store before it.                                            *)
(***************************************************************************)
\* The record the last create_symlink call was given.
LinkedFile == pre.files[lastOp.id]

\* The record holds a link path that exists on disk.
HasRecordedLink ==
    LinkedFile.symlink_path # NULL /\ Exists(lastOp.disk0, LinkedFile.symlink_path)

\* The directory and the name the link of the record is to get.
LinkDir ==
    LET m == CHOOSE r \in pre.media : r.id = LinkedFile.media_id
    IN  Media_get_path(m).parent \o "/" \o Media_get_path(m).name

LinkName ==
    MediaFile_get_path(LinkedFile,
                       CHOOSE r \in pre.media : r.id = LinkedFile.media_id)

\* Nothing is at the path.
Free(p) == ~Occupied(lastOp.disk0, p)

\* C16: the derived path is the exact path when nothing is at it, else
\* the path with ' - vN' between stem and extension for the least N >= 2
\* at which nothing is.
C16_UniqueName ==
    (IsOp("CreateSymlink") /\ lastOp.unique # NULL) =>
        LET exact == LinkDir \o "/" \o LinkName.stem \o LinkName.ext
        IN  IF Free(exact) THEN lastOp.unique = exact
            ELSE \E n \in 2..(MaxLinks + 2) :
                    /\ lastOp.unique =
                           VersionedPath(LinkDir, LinkName.stem, LinkName.ext, n)
                    /\ Free(lastOp.unique)
                    /\ \A k \in 2..(n - 1) :
                           ~Free(VersionedPath(LinkDir, LinkName.stem,
                                               LinkName.ext, k))

\* C17: a call on a record whose link path exists returns that path and
\* changes neither the disk nor the store.
C17_ExistingLinkNoOp ==
    (IsOp("CreateSymlink") /\ HasRecordedLink) =>
        /\ lastOp.result = LinkedFile.symlink_path
        /\ lastOp.error = ""
        /\ disk = lastOp.disk0
        /\ Store = pre

\* C17 witness: the call was on a record whose link an earlier call made.
C17_Witness ==
    /\ IsOp("CreateSymlink")
    /\ HasRecordedLink
    /\ LinkedFile.symlink_path = VersionedPath(Show101Dir, "A (1999) - s1e1", ".mkv", 2)
    /\ [path |-> LinkedFile.symlink_path, target |-> LinkedFile.target_path]
           \in disk.links
    /\ lastOp.result = LinkedFile.symlink_path

\* C18: when create_symlink returns a path, a link at the path points at
\* the record's target and the record holds the path.
C18_SuccessPostcondition ==
    (IsOp("CreateSymlink") /\ lastOp.result # NULL) =>
        /\ [path |-> lastOp.result, target |-> LinkedFile.target_path]
               \in disk.links
        /\ files[lastOp.id].symlink_path = lastOp.result

\* C19: a call on a record without a usable link whose target is missing
\* raises the not-found error and changes neither the disk nor the store.
C19_MissingTarget ==
    (/\ IsOp("CreateSymlink")
     /\ ~HasRecordedLink
     /\ ~Exists(lastOp.disk0, LinkedFile.target_path)) =>
        /\ lastOp.error = "FileNotFoundError"
        /\ lastOp.result = NULL
        /\ disk = lastOp.disk0
        /\ Store = pre

\* C19 witness: the target of a record with a Media and a stale link path
\* was missing, and the call raised.
C19_Witness ==
    /\ IsOp("CreateSymlink")
    /\ LinkedFile.symlink_path = OldPath
    /\ LinkedFile.media_id = "101"
    /\ ~Exists(lastOp.disk0, LinkedFile.target_path)
    /\ ShowsDir \in disk.dirs
    /\ lastOp.error = "FileNotFoundError"

\* The last call reached format_symlink_path.
ReachedFormat ==
    /\ IsOp("CreateSymlink")
    /\ ~HasRecordedLink
    /\ Exists(lastOp.disk0, LinkedFile.target_path)

\* C20: deriving the path for a record without Media raises the state
\* error and makes no directory and no link.
C20_NoMediaFails ==
    (ReachedFormat /\ ~FileHasMedia(pre, LinkedFile)) =>
        /\ lastOp.error = "ValueError"
        /\ lastOp.result = NULL
        /\ disk.dirs = lastOp.disk0.dirs
        /\ disk.links = lastOp.disk0.links

\* C20 witness: the record had a target on disk and no Media, the category
\* directory was there, and the call raised.
C20_Witness ==
    /\ ReachedFormat
    /\ LinkedFile.media_id = NULL
    /\ ShowsDir \in lastOp.disk0.dirs
    /\ lastOp.error = "ValueError"
    /\ Show101Dir \notin disk.dirs

\* The operating system refuses the link of the last call: something is at
\* the derived path, and symlink_to raises FileExistsError.
LinkRefused ==
    /\ ReachedFormat
    /\ lastOp.unique # NULL
    /\ ~Free(lastOp.unique)

\* C21: when the operating system refuses to create the link, the call
\* returns None, raises nothing, makes no link, and leaves the record's
\* symlink path and the rest of the store as they were.
C21_OSErrorContained ==
    LinkRefused =>
        /\ lastOp.result = NULL
        /\ lastOp.error = ""
        /\ disk.links = lastOp.disk0.links
        /\ files[lastOp.id].symlink_path = LinkedFile.symlink_path
        /\ Store = pre

\* C21 witness: a link whose target is missing was at the derived path of
\* a record with a Media and a target on disk, and the call returned None.
C21_Witness ==
    /\ LinkRefused
    /\ lastOp.unique = EpisodePath
    /\ LinkedFile.media_id = "101"
    /\ \E l \in lastOp.disk0.links : l.path = EpisodePath /\ l.target \notin disk.files
    /\ lastOp.result = NULL
    /\ lastOp.error = ""

\* The record f lacked a symlink path before the last pass, was a
\* Torrent's file, had a Media and a target on disk.
Linkable(f) ==
    /\ pre.files[f].torrent_id \in DOMAIN pre.torrents
    /\ ~Truthy("symlink_path", pre.files[f].symlink_path)
    /\ FileHasMedia(pre, pre.files[f])
    /\ Exists(lastOp.disk0, pre.files[f].target_path)

\* C22: after the linking pass, every file of a Torrent that lacked a
\* symlink path and had a Media and a target on disk holds a symlink path
\* that exists on disk, whatever the other files of the pass are.
C22_LinkingPassComplete ==
    IsOp("LinkingPass") =>
        \A f \in DOMAIN pre.files :
            Linkable(f) =>
                /\ Truthy("symlink_path", files[f].symlink_path)
                /\ Exists(disk, files[f].symlink_path)

C23_WitnessCommit ==
    /\ session.pc = "closed"
    /\ session.exc = ""
    /\ media # pre.media
    /\ session.commits = 1

\* C31: a scope that has been left has closed its session once, whether
\* the body raised or not and whether the commit or the rollback made on
\* exit raised or not.
C31_ScopeReleased ==
    session.pc = "closed" => session.closes = 1

\* C31 witness: the rollback made on exit raised, and the session is closed.
C31_Witness ==
    /\ IsOp("Exit")
    /\ session.exc # ""
    /\ session.exitexc = ExitError
    /\ session.rollbacks = 1
    /\ session.closes = 1

\* C31 witness: the commit made on exit raised, and the session is closed.
C31_WitnessCommit ==
    /\ IsOp("Exit")
    /\ session.exc = ""
    /\ session.exitexc = ExitError
    /\ session.commits = 1
    /\ session.closes = 1

\* The last call named a class with no handler of its own.
NoOwnHandler == IsOp("RepoCall") /\ lastOp.cls \notin session.handlers

\* C24: a call of add, update, delete, get, get_by_id or get_all for a
\* class that is neither registered nor a subtype of a registered class
\* raises TypeError and leaves the session's store and the committed store
\* as they were.
C24_UnregisteredTypeFails ==
    (NoOwnHandler /\ FirstRegistered(session.handlers, Mro(lastOp.cls)) = NoHandler) =>
        /\ lastOp.error = "TypeError"
        /\ lastOp.handler = NoHandler
        /\ session.work = lastOp.work0
        /\ Store = pre

\* C24 witness: after a Media was added in the scope, an add for a class
\* outside the registry raised.
C24_Witness ==
    /\ IsOp("RepoCall")
    /\ lastOp.call = "add"
    /\ lastOp.cls = "unregistered"
    /\ lastOp.error = "TypeError"
    /\ session.work.media # {}
    /\ session.pc = "raised"

\* C24 witness: get_all for a class outside the registry raised.
C24_WitnessRead ==
    /\ IsOp("RepoCall")
    /\ lastOp.call = "get_all"
    /\ lastOp.cls = "unregistered"
    /\ lastOp.error = "TypeError"

\* C25: a call of add, update, delete, get, get_by_id or get_all for a
\* class without a handler of its own that is a subtype of a registered
\* class is served by the handler of the nearest registered supertype and
\* raises no TypeError.
C25_SubtypeFallback ==
    (NoOwnHandler /\ FirstRegistered(session.handlers, Mro(lastOp.cls)) # NoHandler) =>
        /\ lastOp.handler = FirstRegistered(session.handlers, Mro(lastOp.cls))
        /\ lastOp.error # "TypeError"

(***************************************************************************)
(* Properties of the resolver.                                             *)
(***************************************************************************)
\* The strings of a list argument, none for None.
Items(arg) == IF arg.none THEN {} ELSE {arg.items[i] : i \in DOMAIN arg.items}

\* C26: the anime flag is true exactly when the genres hold 'Anime', or
\* hold 'Animation' while the countries hold 'Japan'; a missing list counts
\* as empty.
C26_AnimeClassification ==
    IsOp("IsAnime") =>
        (lastOp.anime <=>
            \/ "Anime" \in Items(lastOp.genres)
            \/ "Animation" \in Items(lastOp.genres) /\ "Japan" \in Items(lastOp.countries))

\* C26 witness: an animation that is not from Japan was classified, and is
\* no anime.
C26_Witness ==
    /\ IsOp("IsAnime")
    /\ "Animation" \in Items(lastOp.genres)
    /\ "Anime" \notin Items(lastOp.genres)
    /\ "USA" \in Items(lastOp.countries)
    /\ "Japan" \notin Items(lastOp.countries)
    /\ ~lastOp.anime

\* C26 witness: 'Anime' with the country list None was classified as anime.
C26_WitnessNone ==
    /\ IsOp("IsAnime")
    /\ "Anime" \in Items(lastOp.genres)
    /\ lastOp.countries.none
    /\ lastOp.anime

(***************************************************************************)
(* Properties of the resolution pass.  pre is the store before the pass.   *)
(***************************************************************************)
\* The id the resolver answers for Torrent t of the store before the pass.
ResolvedId(t) == imdb.search[pre.torrents[t].path]

\* Torrent t lacked a Media before the pass.
Unresolved(t) == ~Truthy("media_id", pre.torrents[t].media_id)

\* The resolver answers an id for Torrent t, and the Media of the id is in
\* the store or the fetch of it succeeds.
Resolvable(t) ==
    /\ ResolvedId(t) \notin {NULL, SearchError}
    /\ \/ \E m \in pre.media : m.id = ResolvedId(t)
       \/ imdb.fetch[ResolvedId(t)].ok

\* C27: after the resolution pass, every Torrent that lacked a Media and is
\* resolvable holds the resolved id, a Media of the id is in the store, and
\* every file of the Torrent that lacked a Media holds the id.
C27_ResolutionSuccess ==
    IsOp("ResolvePass") =>
        \A t \in DOMAIN pre.torrents :
            (Unresolved(t) /\ Resolvable(t)) =>
                /\ torrents[t].media_id = ResolvedId(t)
                /\ \E m \in media : m.id = ResolvedId(t)
                /\ \A f \in TorrentFiles(pre, t) :
                       pre.files[f].media_id = NULL =>
                           files[f].media_id = ResolvedId(t)

\* The pass fails for Torrent t: the resolver answers no id or raises, or
\* the Media of the id is not in the store and its fetch or insert fails.
FailsFor(t) ==
    \/ ResolvedId(t) \in {NULL, SearchError}
    \/ /\ ~\E m \in pre.media : m.id = ResolvedId(t)
       /\ \/ ~imdb.fetch[ResolvedId(t)].ok
          \/ imdb.fetch[ResolvedId(t)].year = NoneInt

RECURSIVE IsolatedFrom(_, _)
\* The pass in which what fails for one Torrent leaves the others alone.
IsolatedFrom(db, t) ==
    IF t > Len(db.torrents) THEN db
    ELSE IsolatedFrom(resolve_torrent(db, t).db, t + 1)

\* C28: after the resolution pass, a Torrent for which the pass fails has
\* no Media and no Media of its id was added, and the store is what the
\* pass leaves when every other Torrent is processed as if nothing failed.
C28_ResolutionIsolation ==
    IsOp("ResolvePass") =>
        /\ \A t \in DOMAIN pre.torrents :
               (Unresolved(t) /\ FailsFor(t)) =>
                   /\ torrents[t].media_id = NULL
                   /\ {m \in media : m.id = ResolvedId(t)} \subseteq pre.media
        /\ Store = IsolatedFrom(pre, 1)

\* The fetch of a resolved id answered a title without a year.
SomeInsertFails ==
    \E t \in DOMAIN pre.torrents :
        /\ Unresolved(t)
        /\ ResolvedId(t) \notin {NULL, SearchError}
        /\ imdb.fetch[ResolvedId(t)].year = NoneInt
        /\ ~\E m \in pre.media : m.id = ResolvedId(t)

\* The resolution pass isolates every failure but that of an insert.
ResolutionIsolationButInsert == SomeInsertFails \/ C28_ResolutionIsolation

\* The resolution pass succeeds when no insert fails.
ResolutionSuccessButInsert == SomeInsertFails \/ C27_ResolutionSuccess

(***************************************************************************)
(* Properties of the full scans under failures.  pre is the store before   *)
(* the scan.                                                               *)
(***************************************************************************)
\* Indexing the torrent directory raises part-way: stat() raises for a
\* file it reads the size of.
TorrentDirRaises(dir) ==
    /\ dir.title # NULL
    /\ dir.files # <<>>
    /\ \E i \in DOMAIN dir.files :
           /\ StatFails(dir.files[i].path)
           /\ dir.kind = "show" =>
                  HasSeasonAndEpisode(parse_torrent_episode(dir.files[i]))

\* The torrent directory is a failing item: its name does not parse, or
\* its indexing raises.
TorrentDirFails(dir) == dir.title = NULL \/ TorrentDirRaises(dir)

\* Indexing the media directory raises part-way.
LibraryDirRaises(dir) ==
    /\ dir.imdb_id # NULL
    /\ \E i \in DOMAIN dir.files :
           StatFails(dir.files[i].path) \/ StatFails(dir.files[i].link)

LibraryDirFails(dir) == dir.imdb_id = NULL \/ LibraryDirRaises(dir)

TorrentDirWorks(dir) == ~TorrentDirFails(dir)
LibraryDirWorks(dir) == ~LibraryDirFails(dir)

\* C29: a full scan leaves the store that the scan of the batch without
\* its failing items leaves.
C29_BatchIsolation ==
    /\ IsOp("TorrentScan") =>
           Store = torrent_full_scan(pre, SelectSeq(fs.torrents, TorrentDirWorks))
    /\ IsOp("LibraryScan") =>
           Store = library_full_scan(pre, SelectSeq(fs.library, LibraryDirWorks))

\* C29 witness: a torrent scan of three directories on the empty store, of
\* which the first has no title and the second raised at its second file,
\* indexed the third.
C29_Witness ==
    /\ IsOp("TorrentScan")
    /\ pre = EmptyStore
    /\ Len(fs.torrents) = 3
    /\ fs.torrents[1].title = NULL
    /\ TorrentDirRaises(fs.torrents[2])
    /\ Len(torrents) = 1
    /\ torrents[1].path = fs.torrents[3].path
    /\ files # <<>>

\* C29 witness: a library scan whose first directory raised indexed the
\* second.
C29_WitnessLibrary ==
    /\ IsOp("LibraryScan")
    /\ Len(fs.library) = 2
    /\ LibraryDirRaises(fs.library[1])
    /\ ~\E m \in pre.media : m.id = fs.library[1].imdb_id
    /\ \E m \in media \ pre.media : m.id = fs.library[2].imdb_id

\* The paths of the files of a directory.
DirPaths(dir) == {dir.files[i].path : i \in DOMAIN dir.files}

\* C30: when indexing a directory raises part-way, the store holds no
\* Torrent or Media of the directory and no MediaFile of its files that
\* the scan wrote, and a scan run next takes the directory up again.
C30_ItemAtomicity ==
    /\ IsOp("TorrentScan") =>
           \A d \in DOMAIN fs.torrents :
               (/\ TorrentDirRaises(fs.torrents[d])
                /\ Torrent_get_by_path(pre, fs.torrents[d].path) = 0) =>
                   /\ Torrent_get_by_path(Store, fs.torrents[d].path) = 0
                   /\ \A f \in DOMAIN files :
                          files[f].target_path \in DirPaths(fs.torrents[d]) =>
                              f \in DOMAIN pre.files /\ files[f] = pre.files[f]
                   /\ index_torrent_body(Store, fs.torrents[d]).error # ""
    /\ IsOp("LibraryScan") =>
           \A d \in DOMAIN fs.library :
               (/\ LibraryDirRaises(fs.library[d])
                /\ get_by_id(pre, "media", fs.library[d].imdb_id) = {}) =>
                   /\ get_by_id(Store, "media", fs.library[d].imdb_id) = {}
                   /\ \A f \in DOMAIN files :
                          files[f].symlink_path \notin DirPaths(fs.library[d])
                   /\ index_media_body(Store, fs.library[d]).error # ""

\* C30 witness: indexing a show torrent raised at its second file, after
\* the Torrent and the record of the first file were written, and the
\* store holds neither.
C30_Witness ==
    /\ IsOp("TorrentScan")
    /\ \E d \in DOMAIN fs.torrents :
           /\ fs.torrents[d].files = <<Episode1, Episode2>>
           /\ StatFails("t1/e2")
           /\ Len(index_torrent_body(pre, fs.torrents[d]).db.files)
                  > Len(pre.files)
           /\ Torrent_get_by_path(pre, "t1") = 0
           /\ Torrent_get_by_path(Store, "t1") = 0
           /\ \A f \in DOMAIN files : files[f].target_path # "t1/e1"

\* C30 witness: indexing a media directory raised at its file, after the
\* Media was written, and the store does not hold the Media.
C30_WitnessLibrary ==
    /\ IsOp("LibraryScan")
    /\ \E d \in DOMAIN fs.library :
           /\ LibraryDirRaises(fs.library[d])
           /\ index_media_body(pre, fs.library[d]).db.media # pre.media
           /\ get_by_id(Store, "media", fs.library[d].imdb_id) = {}


(***************************************************************************)
(* Properties of path derivation.                                          *)
(***************************************************************************)
\* C34: when a call reaches path derivation for a file with a Media, the
\* Media's directory exists afterwards, whether or not its category
\* directory was there; and when the Media's directory was there before,
\* the directories are what they were.
C34_MediaDirectoryCreated ==
    (ReachedFormat /\ FileHasMedia(pre, LinkedFile)) =>
        /\ LinkDir \in disk.dirs
        /\ (LinkDir \in lastOp.disk0.dirs => disk.dirs = lastOp.disk0.dirs)

\* C35: the path that path derivation returns has nothing at it, neither a
\* file, a directory nor a link, whatever the link's target; so the link
\* is made at it.
C35_DerivedPathFree ==
    (IsOp("CreateSymlink") /\ lastOp.unique # NULL) =>
        /\ Free(lastOp.unique)
        /\ lastOp.result = lastOp.unique

\* The exact (unversioned) path derived for the record f of db; NULL for a
\* record without a Media.
ExactPath(db, f) ==
    IF ~FileHasMedia(db, db.files[f]) THEN NULL
    ELSE LET m == CHOOSE r \in db.media : r.id = db.files[f].media_id
             name == MediaFile_get_path(db.files[f], m)
         IN  Media_get_path(m).parent \o "/" \o Media_get_path(m).name
                 \o "/" \o name.stem \o name.ext

\* No two records hold the same symlink path.
DistinctSymlinkPaths ==
    \A i, j \in DOMAIN files :
        (i # j /\ files[i].symlink_path # NULL) =>
            files[i].symlink_path # files[j].symlink_path

\* The call linked a record that is the first of its base name to hold a
\* symlink path.
FirstOfItsName ==
    /\ IsOp("CreateSymlink")
    /\ lastOp.result # NULL
    /\ LinkedFile.symlink_path = NULL
    /\ \A g \in DOMAIN pre.files :
           (g # lastOp.id /\ ExactPath(pre, g) = ExactPath(pre, lastOp.id)) =>
               pre.files[g].symlink_path = NULL

\* C36: the records hold distinct symlink paths (their targets are
\* distinct), and of the records that derive one base name the first to
\* be linked holds the unversioned name (when nothing else was at it).
C36_SymlinkPathsDistinct ==
    /\ DistinctSymlinkPaths
    /\ (FirstOfItsName /\ Free(ExactPath(pre, lastOp.id))) =>
           files[lastOp.id].symlink_path = ExactPath(pre, lastOp.id)

(***************************************************************************)
(* Properties of the store as a whole.                                     *)
(***************************************************************************)
\* The Media reference names a stored Media, or is not set.
RefersToMedia(id) == id = NULL \/ \E m \in media : m.id = id

PlacesOfKind(results, kind) ==
    {i \in DOMAIN results :
        IF kind = "show"
        THEN results[i].kind \in {"tv series", "tv mini series"}
        ELSE results[i].kind \notin {"tv series", "tv mini series"}}

\* C38: a search for a title and a kind returns the id of the first result
\* that counts as the kind, None when no result does, and raises the
\* lookup error when the search of the service raises.
C38_FirstKindMatch ==
    (IsOp("GetImdbId") /\ lastOp.title # "" /\ lastOp.kind \in {"movie", "show"}) =>
        LET places == PlacesOfKind(imdb.results, lastOp.kind)
        IN  IF imdb.raises
            THEN lastOp.found = [result |-> NULL, error |-> "RuntimeError"]
            ELSE IF places = {}
            THEN lastOp.found = [result |-> NULL, error |-> ""]
            ELSE /\ lastOp.found.error = ""
                 /\ lastOp.found.result = imdb.results[Min(places)].movieID

\* C38 witness: a search for a movie passed over a show, took the result
\* without a kind label that came next, and left a later movie.
C38_Witness ==
    /\ IsOp("GetImdbId")
    /\ lastOp.title # ""
    /\ lastOp.kind = "movie"
    /\ ~imdb.raises
    /\ Len(imdb.results) = 3
    /\ imdb.results[1].kind = "tv mini series"
    /\ imdb.results[2].kind = NULL
    /\ imdb.results[3].kind = "movie"
    /\ lastOp.found.result = imdb.results[2].movieID

\* C38 witness: the search of the service raised.
C38_WitnessRaises ==
    /\ IsOp("GetImdbId")
    /\ lastOp.title # ""
    /\ lastOp.kind = "show"
    /\ imdb.raises
    /\ lastOp.found.error = "RuntimeError"

(***************************************************************************)
(* Properties of the category directories.                                 *)
(***************************************************************************)
\* The scan registered the placed Media with its kind and anime flag.
RegisteredAsPlaced ==
    \E r \in lastOp.registered :
        /\ r.id = lastOp.media.id
        /\ r.kind = lastOp.media.kind
        /\ r.anime = lastOp.media.anime

\* C39: whatever the scanner's category names, with anime separation on,
\* the directory that the symlinker places for a Media is registered by
\* the library scan with the Media's kind and anime flag.
C39_CategoryRoundTrip ==
    (IsOp("RoundTrip") /\ fs.categories.separate_animes) => RegisteredAsPlaced

\* With the default category names the directory the symlinker places is
\* registered with the Media's kind and anime flag.
RoundTripDefaultNames ==
    (/\ IsOp("RoundTrip")
     /\ fs.categories = Categories_init(TRUE, NULL, NULL, NULL, NULL)) =>
        RegisteredAsPlaced

====
